---- MODULE Spec2Model ----
(***************************************************************************)
(* A model of the sales-tax engine of tax_engine: the rate database        *)
(* (rates.py), the calculator (calculator.py), the compliance checker      *)
(* (compliance.py: nexus, filing deadlines, alerts) and the refund         *)
(* analyzer (refund_analyzer.py).                                          *)
(*                                                                         *)
(* Conventions of the model                                                *)
(*  - A Python str that the code converts (upper, lower, strip) is a       *)
(*    sequence of one-character strings, so that the conversions are       *)
(*    computed character by character.  Other strings are TLA+ strings.    *)
(*  - An f-string is the tuple of its parts, in order.                     *)
(*  - A Decimal is a record [kind, coeff, exp]: kind "finite" with the     *)
(*    value coeff / 10^exp, or one of the special values "Infinity" and    *)
(*    "sNaN".  Money has two or three digits after the point.              *)
(*  - A rate (a float in the source, read through Decimal(str(rate))) is   *)
(*    an integer number of 1/RateScale: 0.0625 is 6250.                    *)
(*  - A call that raises yields the record [exception |-> <class name>].   *)
(*  - None is a value of its own for strings (None) and records (NoState,  *)
(*    NoDate, NoRecord); an Optional[int] or Optional[list] is << >> or    *)
(*    <<value>>.                                                           *)
(*  - A date is the record [year, month, day].                             *)
(*  - A set or dict mutated in place is an entry of heap, and an object    *)
(*    holds the index of it.                                               *)
(*  - Where Python fixes no order (iterating a set), the order is an       *)
(*    argument of the operator and the action takes every order.           *)
(***************************************************************************)
EXTENDS Integers, Sequences, FiniteSets, TLC

VARIABLES
  pc,            \* the call about to be made, "idle" between calls, "return" after the last
  txn,           \* calculate: the Transaction passed in
  result,        \* calculate: the TaxResult returned (or the exception raised)
  transactions,  \* calculate_batch: the list passed in
  batch,         \* calculate_batch: the BatchResult returned
  purchase,      \* calculate_use_tax: its arguments
  use_tax,       \* calculate_use_tax: the TaxResult returned
  nexus_args,    \* check_nexus: its arguments
  nexus,         \* check_nexus: the NexusStatus returned
  heap,          \* the objects mutated in place: sets and dicts, by reference
  checkers,      \* the ComplianceChecker instances constructed
  call,          \* the last call on a checker or an analyzer: method and arguments
  ret,           \* what that call returned
  history        \* the mutating calls made on the checkers so far

vars == <<pc, txn, result, transactions, batch, purchase, use_tax, nexus_args, nexus, heap, checkers, call, ret, history>>

-----------------------------------------------------------------------------
(* Python values *)

None == <<"None">>

NotCalled == [called |-> FALSE]

Raise(e) == [exception |-> e]

Raised(r) == "exception" \in DOMAIN r

Ok(v) == [value |-> v]

\* Truthiness of an Optional[str]: None and "" are false.
Truthy(s) == s # None /\ s # << >>

ASCII_LOWER ==
  <<"a", "b", "c", "d", "e", "f", "g", "h", "i", "j", "k", "l", "m",
    "n", "o", "p", "q", "r", "s", "t", "u", "v", "w", "x", "y", "z">>

ASCII_UPPER ==
  <<"A", "B", "C", "D", "E", "F", "G", "H", "I", "J", "K", "L", "M",
    "N", "O", "P", "Q", "R", "S", "T", "U", "V", "W", "X", "Y", "Z">>

WHITESPACE == {" ", "\t", "\n", "\r", "\f"}

IndexOf(c, alphabet) == CHOOSE i \in DOMAIN alphabet : alphabet[i] = c

IsIn(c, alphabet) == \E i \in DOMAIN alphabet : alphabet[i] = c

\* str.upper()
upper(s) ==
  [i \in DOMAIN s |->
     IF IsIn(s[i], ASCII_LOWER) THEN ASCII_UPPER[IndexOf(s[i], ASCII_LOWER)] ELSE s[i]]

\* str.lower()
lower(s) ==
  [i \in DOMAIN s |->
     IF IsIn(s[i], ASCII_UPPER) THEN ASCII_LOWER[IndexOf(s[i], ASCII_UPPER)] ELSE s[i]]

RECURSIVE lstrip(_)
lstrip(s) == IF Len(s) > 0 /\ s[1] \in WHITESPACE THEN lstrip(Tail(s)) ELSE s

RECURSIVE rstrip(_)
rstrip(s) ==
  IF Len(s) > 0 /\ s[Len(s)] \in WHITESPACE THEN rstrip(SubSeq(s, 1, Len(s) - 1)) ELSE s

\* str.strip()
strip(s) == rstrip(lstrip(s))

-----------------------------------------------------------------------------
(* decimal.Decimal *)

\* A finite Decimal is its coefficient and the number of digits after the point
\* (value = coeff / 10^exp), held with two digits when it is a whole number of
\* cents and with three otherwise; Decimal compares by value, and so does = on
\* this form.
Dec(c) == [kind |-> "finite", coeff |-> c, exp |-> 2]

\* Decimal of m thousandths
Milli(m) == IF m % 10 = 0 THEN Dec(m \div 10) ELSE [kind |-> "finite", coeff |-> m, exp |-> 3]

Infinity == [kind |-> "Infinity", coeff |-> 0, exp |-> 2]

sNaN == [kind |-> "sNaN", coeff |-> 0, exp |-> 2]

IsFinite(d) == d.kind = "finite"

\* units of the coefficient in one cent
PerCent(d) == IF d.exp = 3 THEN 10 ELSE 1

\* a finite Decimal in thousandths
Mills(d) == IF d.exp = 3 THEN d.coeff ELSE d.coeff * 10

Abs(n) == IF n < 0 THEN -n ELSE n

Sign(n) == IF n < 0 THEN -1 ELSE 1

Min(a, b) == IF a <= b THEN a ELSE b

Max(a, b) == IF a >= b THEN a ELSE b

\* One unit of a rate is 1/RateScale.
RateScale == 100000

-----------------------------------------------------------------------------
(* rates.py *)

_STATE_DATA ==
  (<<"A", "L">> :> [name |-> "Alabama", base_rate |-> 4000, has_local |-> TRUE,
       max_local |-> 7500, avg_combined |-> 9240,
       exemptions |-> <<"prescription_drug">>,
       locals |-> <<
          [jurisdiction |-> <<"B", "i", "r", "m", "i", "n", "g", "h", "a", "m">>, county |-> "Jefferson", rate |-> 4000, jurisdiction_type |-> "city"],
          [jurisdiction |-> <<"M", "o", "n", "t", "g", "o", "m", "e", "r", "y">>, county |-> "Montgomery", rate |-> 3500, jurisdiction_type |-> "city"],
          [jurisdiction |-> <<"M", "o", "b", "i", "l", "e">>, county |-> "Mobile", rate |-> 4000, jurisdiction_type |-> "city"],
          [jurisdiction |-> <<"H", "u", "n", "t", "s", "v", "i", "l", "l", "e">>, county |-> "Madison", rate |-> 3000, jurisdiction_type |-> "city"] >>]) @@
  (<<"A", "K">> :> [name |-> "Alaska", base_rate |-> 0, has_local |-> TRUE,
       max_local |-> 7500, avg_combined |-> 1820,
       exemptions |-> <<>>,
       locals |-> <<
          [jurisdiction |-> <<"J", "u", "n", "e", "a", "u">>, county |-> "Juneau", rate |-> 5000, jurisdiction_type |-> "city"],
          [jurisdiction |-> <<"K", "o", "d", "i", "a", "k">>, county |-> "Kodiak Island", rate |-> 7000, jurisdiction_type |-> "city"] >>]) @@
  (<<"A", "Z">> :> [name |-> "Arizona", base_rate |-> 5600, has_local |-> TRUE,
       max_local |-> 5800, avg_combined |-> 8400,
       exemptions |-> <<"grocery", "prescription_drug">>,
       locals |-> <<
          [jurisdiction |-> <<"P", "h", "o", "e", "n", "i", "x">>, county |-> "Maricopa", rate |-> 2300, jurisdiction_type |-> "city"],
          [jurisdiction |-> <<"T", "u", "c", "s", "o", "n">>, county |-> "Pima", rate |-> 2600, jurisdiction_type |-> "city"],
          [jurisdiction |-> <<"S", "c", "o", "t", "t", "s", "d", "a", "l", "e">>, county |-> "Maricopa", rate |-> 1750, jurisdiction_type |-> "city"],
          [jurisdiction |-> <<"M", "e", "s", "a">>, county |-> "Maricopa", rate |-> 1750, jurisdiction_type |-> "city"] >>]) @@
  (<<"A", "R">> :> [name |-> "Arkansas", base_rate |-> 6500, has_local |-> TRUE,
       max_local |-> 6250, avg_combined |-> 9510,
       exemptions |-> <<"prescription_drug">>,
       locals |-> <<
          [jurisdiction |-> <<"L", "i", "t", "t", "l", "e", " ", "R", "o", "c", "k">>, county |-> "Pulaski", rate |-> 3000, jurisdiction_type |-> "city"],
          [jurisdiction |-> <<"F", "o", "r", "t", " ", "S", "m", "i", "t", "h">>, county |-> "Sebastian", rate |-> 2750, jurisdiction_type |-> "city"] >>]) @@
  (<<"C", "A">> :> [name |-> "California", base_rate |-> 7250, has_local |-> TRUE,
       max_local |-> 3750, avg_combined |-> 8820,
       exemptions |-> <<"grocery", "prescription_drug">>,
       locals |-> <<
          [jurisdiction |-> <<"L", "o", "s", " ", "A", "n", "g", "e", "l", "e", "s">>, county |-> "Los Angeles", rate |-> 2500, jurisdiction_type |-> "city"],
          [jurisdiction |-> <<"S", "a", "n", " ", "F", "r", "a", "n", "c", "i", "s", "c", "o">>, county |-> "San Francisco", rate |-> 1250, jurisdiction_type |-> "city"],
          [jurisdiction |-> <<"S", "a", "n", " ", "D", "i", "e", "g", "o">>, county |-> "San Diego", rate |-> 750, jurisdiction_type |-> "city"],
          [jurisdiction |-> <<"S", "a", "n", " ", "J", "o", "s", "e">>, county |-> "Santa Clara", rate |-> 1250, jurisdiction_type |-> "city"],
          [jurisdiction |-> <<"S", "a", "c", "r", "a", "m", "e", "n", "t", "o">>, county |-> "Sacramento", rate |-> 750, jurisdiction_type |-> "city"] >>]) @@
  (<<"C", "O">> :> [name |-> "Colorado", base_rate |-> 2900, has_local |-> TRUE,
       max_local |-> 8300, avg_combined |-> 7770,
       exemptions |-> <<"grocery", "prescription_drug">>,
       locals |-> <<
          [jurisdiction |-> <<"D", "e", "n", "v", "e", "r">>, county |-> "Denver", rate |-> 4810, jurisdiction_type |-> "city"],
          [jurisdiction |-> <<"C", "o", "l", "o", "r", "a", "d", "o", " ", "S", "p", "r", "i", "n", "g", "s">>, county |-> "El Paso", rate |-> 3100, jurisdiction_type |-> "city"],
          [jurisdiction |-> <<"A", "u", "r", "o", "r", "a">>, county |-> "Arapahoe", rate |-> 3750, jurisdiction_type |-> "city"] >>]) @@
  (<<"C", "T">> :> [name |-> "Connecticut", base_rate |-> 6350, has_local |-> FALSE,
       max_local |-> 0, avg_combined |-> 6350,
       exemptions |-> <<"grocery", "clothing", "prescription_drug">>,
       locals |-> << >>]) @@
  (<<"D", "E">> :> [name |-> "Delaware", base_rate |-> 0, has_local |-> FALSE,
       max_local |-> 0, avg_combined |-> 0,
       exemptions |-> <<>>,
       locals |-> << >>]) @@
  (<<"F", "L">> :> [name |-> "Florida", base_rate |-> 6000, has_local |-> TRUE,
       max_local |-> 2500, avg_combined |-> 7020,
       exemptions |-> <<"grocery", "prescription_drug", "medical_device">>,
       locals |-> <<
          [jurisdiction |-> <<"M", "i", "a", "m", "i">>, county |-> "Miami-Dade", rate |-> 1000, jurisdiction_type |-> "city"],
          [jurisdiction |-> <<"O", "r", "l", "a", "n", "d", "o">>, county |-> "Orange", rate |-> 500, jurisdiction_type |-> "city"],
          [jurisdiction |-> <<"T", "a", "m", "p", "a">>, county |-> "Hillsborough", rate |-> 1500, jurisdiction_type |-> "city"],
          [jurisdiction |-> <<"J", "a", "c", "k", "s", "o", "n", "v", "i", "l", "l", "e">>, county |-> "Duval", rate |-> 500, jurisdiction_type |-> "city"] >>]) @@
  (<<"G", "A">> :> [name |-> "Georgia", base_rate |-> 4000, has_local |-> TRUE,
       max_local |-> 5000, avg_combined |-> 7350,
       exemptions |-> <<"grocery", "prescription_drug">>,
       locals |-> <<
          [jurisdiction |-> <<"A", "t", "l", "a", "n", "t", "a">>, county |-> "Fulton", rate |-> 3890, jurisdiction_type |-> "city"],
          [jurisdiction |-> <<"S", "a", "v", "a", "n", "n", "a", "h">>, county |-> "Chatham", rate |-> 4000, jurisdiction_type |-> "city"] >>]) @@
  (<<"H", "I">> :> [name |-> "Hawaii", base_rate |-> 4000, has_local |-> TRUE,
       max_local |-> 500, avg_combined |-> 4440,
       exemptions |-> <<"prescription_drug">>,
       locals |-> <<
          [jurisdiction |-> <<"H", "o", "n", "o", "l", "u", "l", "u">>, county |-> "Honolulu", rate |-> 500, jurisdiction_type |-> "city"] >>]) @@
  (<<"I", "D">> :> [name |-> "Idaho", base_rate |-> 6000, has_local |-> TRUE,
       max_local |-> 3000, avg_combined |-> 6020,
       exemptions |-> <<"grocery", "prescription_drug">>,
       locals |-> <<
          [jurisdiction |-> <<"S", "u", "n", " ", "V", "a", "l", "l", "e", "y">>, county |-> "Blaine", rate |-> 3000, jurisdiction_type |-> "district"] >>]) @@
  (<<"I", "L">> :> [name |-> "Illinois", base_rate |-> 6250, has_local |-> TRUE,
       max_local |-> 5250, avg_combined |-> 8820,
       exemptions |-> <<"grocery", "prescription_drug", "medical_device">>,
       locals |-> <<
          [jurisdiction |-> <<"C", "h", "i", "c", "a", "g", "o">>, county |-> "Cook", rate |-> 4750, jurisdiction_type |-> "city"],
          [jurisdiction |-> <<"S", "p", "r", "i", "n", "g", "f", "i", "e", "l", "d">>, county |-> "Sangamon", rate |-> 2250, jurisdiction_type |-> "city"],
          [jurisdiction |-> <<"N", "a", "p", "e", "r", "v", "i", "l", "l", "e">>, county |-> "DuPage", rate |-> 1750, jurisdiction_type |-> "city"] >>]) @@
  (<<"I", "N">> :> [name |-> "Indiana", base_rate |-> 7000, has_local |-> FALSE,
       max_local |-> 0, avg_combined |-> 7000,
       exemptions |-> <<"grocery", "prescription_drug">>,
       locals |-> << >>]) @@
  (<<"I", "A">> :> [name |-> "Iowa", base_rate |-> 6000, has_local |-> TRUE,
       max_local |-> 1000, avg_combined |-> 6940,
       exemptions |-> <<"grocery", "prescription_drug">>,
       locals |-> <<
          [jurisdiction |-> <<"D", "e", "s", " ", "M", "o", "i", "n", "e", "s">>, county |-> "Polk", rate |-> 1000, jurisdiction_type |-> "city"],
          [jurisdiction |-> <<"C", "e", "d", "a", "r", " ", "R", "a", "p", "i", "d", "s">>, county |-> "Linn", rate |-> 1000, jurisdiction_type |-> "city"] >>]) @@
  (<<"K", "S">> :> [name |-> "Kansas", base_rate |-> 6500, has_local |-> TRUE,
       max_local |-> 5000, avg_combined |-> 8720,
       exemptions |-> <<"prescription_drug">>,
       locals |-> <<
          [jurisdiction |-> <<"W", "i", "c", "h", "i", "t", "a">>, county |-> "Sedgwick", rate |-> 2250, jurisdiction_type |-> "city"],
          [jurisdiction |-> <<"T", "o", "p", "e", "k", "a">>, county |-> "Shawnee", rate |-> 2150, jurisdiction_type |-> "city"] >>]) @@
  (<<"K", "Y">> :> [name |-> "Kentucky", base_rate |-> 6000, has_local |-> FALSE,
       max_local |-> 0, avg_combined |-> 6000,
       exemptions |-> <<"grocery", "prescription_drug">>,
       locals |-> << >>]) @@
  (<<"L", "A">> :> [name |-> "Louisiana", base_rate |-> 4450, has_local |-> TRUE,
       max_local |-> 7000, avg_combined |-> 9550,
       exemptions |-> <<"grocery", "prescription_drug">>,
       locals |-> <<
          [jurisdiction |-> <<"N", "e", "w", " ", "O", "r", "l", "e", "a", "n", "s">>, county |-> "Orleans", rate |-> 5000, jurisdiction_type |-> "city"],
          [jurisdiction |-> <<"B", "a", "t", "o", "n", " ", "R", "o", "u", "g", "e">>, county |-> "East Baton Rouge", rate |-> 5000, jurisdiction_type |-> "city"] >>]) @@
  (<<"M", "E">> :> [name |-> "Maine", base_rate |-> 5500, has_local |-> FALSE,
       max_local |-> 0, avg_combined |-> 5500,
       exemptions |-> <<"grocery", "prescription_drug">>,
       locals |-> << >>]) @@
  (<<"M", "D">> :> [name |-> "Maryland", base_rate |-> 6000, has_local |-> FALSE,
       max_local |-> 0, avg_combined |-> 6000,
       exemptions |-> <<"grocery", "clothing", "prescription_drug", "medical_device">>,
       locals |-> << >>]) @@
  (<<"M", "A">> :> [name |-> "Massachusetts", base_rate |-> 6250, has_local |-> FALSE,
       max_local |-> 0, avg_combined |-> 6250,
       exemptions |-> <<"grocery", "clothing", "prescription_drug">>,
       locals |-> << >>]) @@
  (<<"M", "I">> :> [name |-> "Michigan", base_rate |-> 6000, has_local |-> FALSE,
       max_local |-> 0, avg_combined |-> 6000,
       exemptions |-> <<"grocery", "prescription_drug">>,
       locals |-> << >>]) @@
  (<<"M", "N">> :> [name |-> "Minnesota", base_rate |-> 6875, has_local |-> TRUE,
       max_local |-> 2000, avg_combined |-> 7830,
       exemptions |-> <<"grocery", "clothing", "prescription_drug">>,
       locals |-> <<
          [jurisdiction |-> <<"M", "i", "n", "n", "e", "a", "p", "o", "l", "i", "s">>, county |-> "Hennepin", rate |-> 2000, jurisdiction_type |-> "city"],
          [jurisdiction |-> <<"S", "t", ".", " ", "P", "a", "u", "l">>, county |-> "Ramsey", rate |-> 1750, jurisdiction_type |-> "city"] >>]) @@
  (<<"M", "S">> :> [name |-> "Mississippi", base_rate |-> 7000, has_local |-> TRUE,
       max_local |-> 1000, avg_combined |-> 7070,
       exemptions |-> <<"prescription_drug">>,
       locals |-> <<
          [jurisdiction |-> <<"J", "a", "c", "k", "s", "o", "n">>, county |-> "Hinds", rate |-> 1000, jurisdiction_type |-> "city"] >>]) @@
  (<<"M", "O">> :> [name |-> "Missouri", base_rate |-> 4225, has_local |-> TRUE,
       max_local |-> 5880, avg_combined |-> 8250,
       exemptions |-> <<"grocery", "prescription_drug">>,
       locals |-> <<
          [jurisdiction |-> <<"S", "t", ".", " ", "L", "o", "u", "i", "s", " ", "C", "i", "t", "y">>, county |-> "St. Louis City", rate |-> 4900, jurisdiction_type |-> "city"],
          [jurisdiction |-> <<"K", "a", "n", "s", "a", "s", " ", "C", "i", "t", "y">>, county |-> "Jackson", rate |-> 4000, jurisdiction_type |-> "city"],
          [jurisdiction |-> <<"S", "p", "r", "i", "n", "g", "f", "i", "e", "l", "d">>, county |-> "Greene", rate |-> 3350, jurisdiction_type |-> "city"] >>]) @@
  (<<"M", "T">> :> [name |-> "Montana", base_rate |-> 0, has_local |-> FALSE,
       max_local |-> 0, avg_combined |-> 0,
       exemptions |-> <<>>,
       locals |-> << >>]) @@
  (<<"N", "E">> :> [name |-> "Nebraska", base_rate |-> 5500, has_local |-> TRUE,
       max_local |-> 2000, avg_combined |-> 6940,
       exemptions |-> <<"grocery", "prescription_drug">>,
       locals |-> <<
          [jurisdiction |-> <<"O", "m", "a", "h", "a">>, county |-> "Douglas", rate |-> 2000, jurisdiction_type |-> "city"],
          [jurisdiction |-> <<"L", "i", "n", "c", "o", "l", "n">>, county |-> "Lancaster", rate |-> 1750, jurisdiction_type |-> "city"] >>]) @@
  (<<"N", "V">> :> [name |-> "Nevada", base_rate |-> 6850, has_local |-> TRUE,
       max_local |-> 1530, avg_combined |-> 8230,
       exemptions |-> <<"grocery", "prescription_drug">>,
       locals |-> <<
          [jurisdiction |-> <<"L", "a", "s", " ", "V", "e", "g", "a", "s">>, county |-> "Clark", rate |-> 1380, jurisdiction_type |-> "city"],
          [jurisdiction |-> <<"R", "e", "n", "o">>, county |-> "Washoe", rate |-> 980, jurisdiction_type |-> "city"] >>]) @@
  (<<"N", "H">> :> [name |-> "New Hampshire", base_rate |-> 0, has_local |-> FALSE,
       max_local |-> 0, avg_combined |-> 0,
       exemptions |-> <<>>,
       locals |-> << >>]) @@
  (<<"N", "J">> :> [name |-> "New Jersey", base_rate |-> 6625, has_local |-> FALSE,
       max_local |-> 0, avg_combined |-> 6625,
       exemptions |-> <<"grocery", "clothing", "prescription_drug", "medical_device">>,
       locals |-> << >>]) @@
  (<<"N", "M">> :> [name |-> "New Mexico", base_rate |-> 4875, has_local |-> TRUE,
       max_local |-> 4810, avg_combined |-> 7290,
       exemptions |-> <<"grocery", "prescription_drug">>,
       locals |-> <<
          [jurisdiction |-> <<"A", "l", "b", "u", "q", "u", "e", "r", "q", "u", "e">>, county |-> "Bernalillo", rate |-> 2810, jurisdiction_type |-> "city"],
          [jurisdiction |-> <<"S", "a", "n", "t", "a", " ", "F", "e">>, county |-> "Santa Fe", rate |-> 3440, jurisdiction_type |-> "city"] >>]) @@
  (<<"N", "Y">> :> [name |-> "New York", base_rate |-> 4000, has_local |-> TRUE,
       max_local |-> 8750, avg_combined |-> 8520,
       exemptions |-> <<"grocery", "clothing", "prescription_drug">>,
       locals |-> <<
          [jurisdiction |-> <<"N", "e", "w", " ", "Y", "o", "r", "k", " ", "C", "i", "t", "y">>, county |-> "New York", rate |-> 4500, jurisdiction_type |-> "city"],
          [jurisdiction |-> <<"B", "u", "f", "f", "a", "l", "o">>, county |-> "Erie", rate |-> 4000, jurisdiction_type |-> "city"],
          [jurisdiction |-> <<"A", "l", "b", "a", "n", "y">>, county |-> "Albany", rate |-> 4000, jurisdiction_type |-> "city"],
          [jurisdiction |-> <<"S", "y", "r", "a", "c", "u", "s", "e">>, county |-> "Onondaga", rate |-> 4000, jurisdiction_type |-> "city"] >>]) @@
  (<<"N", "C">> :> [name |-> "North Carolina", base_rate |-> 4750, has_local |-> TRUE,
       max_local |-> 2750, avg_combined |-> 6980,
       exemptions |-> <<"grocery", "prescription_drug">>,
       locals |-> <<
          [jurisdiction |-> <<"C", "h", "a", "r", "l", "o", "t", "t", "e">>, county |-> "Mecklenburg", rate |-> 2500, jurisdiction_type |-> "city"],
          [jurisdiction |-> <<"R", "a", "l", "e", "i", "g", "h">>, county |-> "Wake", rate |-> 2250, jurisdiction_type |-> "city"],
          [jurisdiction |-> <<"D", "u", "r", "h", "a", "m">>, county |-> "Durham", rate |-> 2500, jurisdiction_type |-> "city"] >>]) @@
  (<<"N", "D">> :> [name |-> "North Dakota", base_rate |-> 5000, has_local |-> TRUE,
       max_local |-> 3500, avg_combined |-> 6960,
       exemptions |-> <<"grocery", "prescription_drug">>,
       locals |-> <<
          [jurisdiction |-> <<"F", "a", "r", "g", "o">>, county |-> "Cass", rate |-> 2500, jurisdiction_type |-> "city"],
          [jurisdiction |-> <<"B", "i", "s", "m", "a", "r", "c", "k">>, county |-> "Burleigh", rate |-> 2000, jurisdiction_type |-> "city"] >>]) @@
  (<<"O", "H">> :> [name |-> "Ohio", base_rate |-> 5750, has_local |-> TRUE,
       max_local |-> 2250, avg_combined |-> 7240,
       exemptions |-> <<"grocery", "prescription_drug">>,
       locals |-> <<
          [jurisdiction |-> <<"C", "o", "l", "u", "m", "b", "u", "s">>, county |-> "Franklin", rate |-> 1750, jurisdiction_type |-> "city"],
          [jurisdiction |-> <<"C", "l", "e", "v", "e", "l", "a", "n", "d">>, county |-> "Cuyahoga", rate |-> 2250, jurisdiction_type |-> "city"],
          [jurisdiction |-> <<"C", "i", "n", "c", "i", "n", "n", "a", "t", "i">>, county |-> "Hamilton", rate |-> 2000, jurisdiction_type |-> "city"] >>]) @@
  (<<"O", "K">> :> [name |-> "Oklahoma", base_rate |-> 4500, has_local |-> TRUE,
       max_local |-> 7000, avg_combined |-> 8950,
       exemptions |-> <<"prescription_drug">>,
       locals |-> <<
          [jurisdiction |-> <<"O", "k", "l", "a", "h", "o", "m", "a", " ", "C", "i", "t", "y">>, county |-> "Oklahoma", rate |-> 4130, jurisdiction_type |-> "city"],
          [jurisdiction |-> <<"T", "u", "l", "s", "a">>, county |-> "Tulsa", rate |-> 4670, jurisdiction_type |-> "city"] >>]) @@
  (<<"O", "R">> :> [name |-> "Oregon", base_rate |-> 0, has_local |-> FALSE,
       max_local |-> 0, avg_combined |-> 0,
       exemptions |-> <<>>,
       locals |-> << >>]) @@
  (<<"P", "A">> :> [name |-> "Pennsylvania", base_rate |-> 6000, has_local |-> TRUE,
       max_local |-> 2000, avg_combined |-> 6340,
       exemptions |-> <<"grocery", "clothing", "prescription_drug">>,
       locals |-> <<
          [jurisdiction |-> <<"P", "h", "i", "l", "a", "d", "e", "l", "p", "h", "i", "a">>, county |-> "Philadelphia", rate |-> 2000, jurisdiction_type |-> "city"],
          [jurisdiction |-> <<"P", "i", "t", "t", "s", "b", "u", "r", "g", "h">>, county |-> "Allegheny", rate |-> 1000, jurisdiction_type |-> "city"] >>]) @@
  (<<"R", "I">> :> [name |-> "Rhode Island", base_rate |-> 7000, has_local |-> FALSE,
       max_local |-> 0, avg_combined |-> 7000,
       exemptions |-> <<"grocery", "clothing", "prescription_drug">>,
       locals |-> << >>]) @@
  (<<"S", "C">> :> [name |-> "South Carolina", base_rate |-> 6000, has_local |-> TRUE,
       max_local |-> 3000, avg_combined |-> 7460,
       exemptions |-> <<"grocery", "prescription_drug">>,
       locals |-> <<
          [jurisdiction |-> <<"C", "h", "a", "r", "l", "e", "s", "t", "o", "n">>, county |-> "Charleston", rate |-> 2500, jurisdiction_type |-> "city"],
          [jurisdiction |-> <<"C", "o", "l", "u", "m", "b", "i", "a">>, county |-> "Richland", rate |-> 2000, jurisdiction_type |-> "city"] >>]) @@
  (<<"S", "D">> :> [name |-> "South Dakota", base_rate |-> 4200, has_local |-> TRUE,
       max_local |-> 4500, avg_combined |-> 6400,
       exemptions |-> <<"prescription_drug">>,
       locals |-> <<
          [jurisdiction |-> <<"S", "i", "o", "u", "x", " ", "F", "a", "l", "l", "s">>, county |-> "Minnehaha", rate |-> 2000, jurisdiction_type |-> "city"],
          [jurisdiction |-> <<"R", "a", "p", "i", "d", " ", "C", "i", "t", "y">>, county |-> "Pennington", rate |-> 2000, jurisdiction_type |-> "city"] >>]) @@
  (<<"T", "N">> :> [name |-> "Tennessee", base_rate |-> 7000, has_local |-> TRUE,
       max_local |-> 2750, avg_combined |-> 9550,
       exemptions |-> <<"prescription_drug">>,
       locals |-> <<
          [jurisdiction |-> <<"N", "a", "s", "h", "v", "i", "l", "l", "e">>, county |-> "Davidson", rate |-> 2250, jurisdiction_type |-> "city"],
          [jurisdiction |-> <<"M", "e", "m", "p", "h", "i", "s">>, county |-> "Shelby", rate |-> 2250, jurisdiction_type |-> "city"],
          [jurisdiction |-> <<"K", "n", "o", "x", "v", "i", "l", "l", "e">>, county |-> "Knox", rate |-> 2250, jurisdiction_type |-> "city"] >>]) @@
  (<<"T", "X">> :> [name |-> "Texas", base_rate |-> 6250, has_local |-> TRUE,
       max_local |-> 2000, avg_combined |-> 8200,
       exemptions |-> <<"grocery", "prescription_drug", "medical_device">>,
       locals |-> <<
          [jurisdiction |-> <<"H", "o", "u", "s", "t", "o", "n">>, county |-> "Harris", rate |-> 2000, jurisdiction_type |-> "city"],
          [jurisdiction |-> <<"D", "a", "l", "l", "a", "s">>, county |-> "Dallas", rate |-> 2000, jurisdiction_type |-> "city"],
          [jurisdiction |-> <<"A", "u", "s", "t", "i", "n">>, county |-> "Travis", rate |-> 2000, jurisdiction_type |-> "city"],
          [jurisdiction |-> <<"S", "a", "n", " ", "A", "n", "t", "o", "n", "i", "o">>, county |-> "Bexar", rate |-> 2000, jurisdiction_type |-> "city"],
          [jurisdiction |-> <<"F", "o", "r", "t", " ", "W", "o", "r", "t", "h">>, county |-> "Tarrant", rate |-> 2000, jurisdiction_type |-> "city"] >>]) @@
  (<<"U", "T">> :> [name |-> "Utah", base_rate |-> 4850, has_local |-> TRUE,
       max_local |-> 4000, avg_combined |-> 7190,
       exemptions |-> <<"prescription_drug">>,
       locals |-> <<
          [jurisdiction |-> <<"S", "a", "l", "t", " ", "L", "a", "k", "e", " ", "C", "i", "t", "y">>, county |-> "Salt Lake", rate |-> 2350, jurisdiction_type |-> "city"],
          [jurisdiction |-> <<"P", "r", "o", "v", "o">>, county |-> "Utah", rate |-> 2250, jurisdiction_type |-> "city"] >>]) @@
  (<<"V", "T">> :> [name |-> "Vermont", base_rate |-> 6000, has_local |-> TRUE,
       max_local |-> 1000, avg_combined |-> 6240,
       exemptions |-> <<"grocery", "clothing", "prescription_drug">>,
       locals |-> <<
          [jurisdiction |-> <<"B", "u", "r", "l", "i", "n", "g", "t", "o", "n">>, county |-> "Chittenden", rate |-> 1000, jurisdiction_type |-> "city"] >>]) @@
  (<<"V", "A">> :> [name |-> "Virginia", base_rate |-> 4300, has_local |-> TRUE,
       max_local |-> 1700, avg_combined |-> 5750,
       exemptions |-> <<"grocery", "prescription_drug">>,
       locals |-> <<
          [jurisdiction |-> <<"V", "i", "r", "g", "i", "n", "i", "a", " ", "B", "e", "a", "c", "h">>, county |-> "Virginia Beach", rate |-> 1700, jurisdiction_type |-> "city"],
          [jurisdiction |-> <<"R", "i", "c", "h", "m", "o", "n", "d">>, county |-> "Richmond City", rate |-> 1700, jurisdiction_type |-> "city"],
          [jurisdiction |-> <<"N", "o", "r", "f", "o", "l", "k">>, county |-> "Norfolk", rate |-> 1700, jurisdiction_type |-> "city"] >>]) @@
  (<<"W", "A">> :> [name |-> "Washington", base_rate |-> 6500, has_local |-> TRUE,
       max_local |-> 4000, avg_combined |-> 9290,
       exemptions |-> <<"grocery", "prescription_drug">>,
       locals |-> <<
          [jurisdiction |-> <<"S", "e", "a", "t", "t", "l", "e">>, county |-> "King", rate |-> 3750, jurisdiction_type |-> "city"],
          [jurisdiction |-> <<"T", "a", "c", "o", "m", "a">>, county |-> "Pierce", rate |-> 2800, jurisdiction_type |-> "city"],
          [jurisdiction |-> <<"S", "p", "o", "k", "a", "n", "e">>, county |-> "Spokane", rate |-> 2400, jurisdiction_type |-> "city"] >>]) @@
  (<<"W", "V">> :> [name |-> "West Virginia", base_rate |-> 6000, has_local |-> TRUE,
       max_local |-> 1000, avg_combined |-> 6520,
       exemptions |-> <<"grocery", "prescription_drug">>,
       locals |-> <<
          [jurisdiction |-> <<"C", "h", "a", "r", "l", "e", "s", "t", "o", "n">>, county |-> "Kanawha", rate |-> 1000, jurisdiction_type |-> "city"] >>]) @@
  (<<"W", "I">> :> [name |-> "Wisconsin", base_rate |-> 5000, has_local |-> TRUE,
       max_local |-> 1750, avg_combined |-> 5430,
       exemptions |-> <<"grocery", "prescription_drug">>,
       locals |-> <<
          [jurisdiction |-> <<"M", "i", "l", "w", "a", "u", "k", "e", "e">>, county |-> "Milwaukee", rate |-> 1750, jurisdiction_type |-> "city"],
          [jurisdiction |-> <<"M", "a", "d", "i", "s", "o", "n">>, county |-> "Dane", rate |-> 500, jurisdiction_type |-> "city"] >>]) @@
  (<<"W", "Y">> :> [name |-> "Wyoming", base_rate |-> 4000, has_local |-> TRUE,
       max_local |-> 4000, avg_combined |-> 5360,
       exemptions |-> <<"grocery", "prescription_drug">>,
       locals |-> <<
          [jurisdiction |-> <<"C", "h", "e", "y", "e", "n", "n", "e">>, county |-> "Laramie", rate |-> 1000, jurisdiction_type |-> "city"],
          [jurisdiction |-> <<"C", "a", "s", "p", "e", "r">>, county |-> "Natrona", rate |-> 1500, jurisdiction_type |-> "city"] >>]) @@
  (<<"D", "C">> :> [name |-> "District of Columbia", base_rate |-> 6000, has_local |-> FALSE,
       max_local |-> 0, avg_combined |-> 6000,
       exemptions |-> <<"grocery", "prescription_drug">>,
       locals |-> << >>])

\* The StateRate dataclass, built from one entry of _STATE_DATA.
StateRate(code, data) ==
  [state_code        |-> code,
   state_name        |-> data.name,
   base_rate         |-> data.base_rate,
   has_local_taxes   |-> data.has_local,
   max_local_rate    |-> data.max_local,
   avg_combined_rate |-> data.avg_combined,
   exemptions        |-> data.exemptions,
   local_rates       |-> data.locals]

\* TaxRateDatabase._load_rates: the StateRate of every entry of the table.
_load_rates(table) == [code \in DOMAIN table |-> StateRate(code, table[code])]

\* TaxRateDatabase._states
_states == _load_rates(_STATE_DATA)

\* dict.get(key, default)
DictGet(dict, key, default) == IF key \in DOMAIN dict THEN dict[key] ELSE default

\* The absent StateRate and the absent LocalRate (Python's None).
NoState == [none |-> "StateRate"]

NoLocal == [none |-> "LocalRate"]

\* The lookup of the code as it is given.
get_state_as_given(state_code) == DictGet(_states, state_code, NoState)

\* TaxRateDatabase.get_state
get_state(state_code) == DictGet(_states, upper(state_code), NoState)

\* TaxRateDatabase.get_base_rate
get_base_rate(state_code) ==
  LET state == get_state(state_code)
  IN  IF state = NoState THEN Raise("ValueError") ELSE Ok(state.base_rate)

\* The first local rate of the list whose jurisdiction is the city, ignoring case.
FirstLocal(local_rates, city) ==
  LET hits == {i \in DOMAIN local_rates : lower(local_rates[i].jurisdiction) = lower(city)}
  IN  IF hits = {} THEN NoLocal
      ELSE local_rates[CHOOSE i \in hits : \A j \in hits : i <= j]

\* TaxRateDatabase.get_local_rate
get_local_rate(state_code, city) ==
  LET state == get_state(state_code)
  IN  IF state = NoState THEN NoLocal ELSE FirstLocal(state.local_rates, city)

\* The sum of two floats: base_rate + local.rate.
FloatAdd(a, b) == [float_sum |-> <<a, b>>]

\* TaxRateDatabase.get_combined_rate
get_combined_rate(state_code, city) ==
  LET state == get_state(state_code)
  IN  IF state = NoState THEN Raise("ValueError")
      ELSE LET local == IF Truthy(city) THEN FirstLocal(state.local_rates, city) ELSE NoLocal
           IN  IF local # NoLocal THEN Ok(FloatAdd(state.base_rate, local.rate))
               ELSE Ok(state.avg_combined_rate)

\* TaxRateDatabase.is_exempt
is_exempt(state_code, category) ==
  LET state == get_state(state_code)
  IN  IF state = NoState THEN Raise("ValueError")
      ELSE Ok(\E i \in DOMAIN state.exemptions : state.exemptions[i] = category)

-----------------------------------------------------------------------------
(* calculator.py *)

\* PricingModel
TAX_EXCLUSIVE == "exclusive"

TAX_INCLUSIVE == "inclusive"

\* The Transaction dataclass (transaction_date is not read by the calculator).
Transaction(transaction_id, amount, state, city, item_category, exemption_certificate, customer_type, pricing_model) ==
  [transaction_id        |-> transaction_id,
   amount                |-> amount,
   state                 |-> state,
   city                  |-> city,
   item_category         |-> item_category,
   exemption_certificate |-> exemption_certificate,
   customer_type         |-> customer_type,
   pricing_model         |-> pricing_model]

\* The TaxResult dataclass.
TaxResult(transaction_id, taxable_amount, tax_amount, effective_rate, state, city, state_tax, local_tax, is_exempt_, exemption_reason, warnings) ==
  [transaction_id   |-> transaction_id,
   taxable_amount   |-> taxable_amount,
   tax_amount       |-> tax_amount,
   effective_rate   |-> effective_rate,
   state            |-> state,
   city             |-> city,
   state_tax        |-> state_tax,
   local_tax        |-> local_tax,
   is_exempt        |-> is_exempt_,
   exemption_reason |-> exemption_reason,
   warnings         |-> warnings]

\* TaxResult.total_with_tax, for a finite taxable amount
total_with_tax(r) == Milli(Mills(r.taxable_amount) + Mills(r.tax_amount))

_CATEGORY_MAP ==
  (<<"g", "r", "o", "c", "e", "r", "y">> :> "grocery") @@
  (<<"g", "r", "o", "c", "e", "r", "i", "e", "s">> :> "grocery") @@
  (<<"f", "o", "o", "d">> :> "grocery") @@
  (<<"c", "l", "o", "t", "h", "i", "n", "g">> :> "clothing") @@
  (<<"a", "p", "p", "a", "r", "e", "l">> :> "clothing") @@
  (<<"p", "r", "e", "s", "c", "r", "i", "p", "t", "i", "o", "n">> :> "prescription_drug") @@
  (<<"p", "r", "e", "s", "c", "r", "i", "p", "t", "i", "o", "n", "_", "d", "r", "u", "g">> :> "prescription_drug") @@
  (<<"r", "x">> :> "prescription_drug") @@
  (<<"m", "e", "d", "i", "c", "a", "l">> :> "medical_device") @@
  (<<"m", "e", "d", "i", "c", "a", "l", "_", "d", "e", "v", "i", "c", "e">> :> "medical_device") @@
  (<<"m", "a", "n", "u", "f", "a", "c", "t", "u", "r", "i", "n", "g">> :> "manufacturing_equipment") @@
  (<<"a", "g", "r", "i", "c", "u", "l", "t", "u", "r", "a", "l">> :> "agricultural") @@
  (<<"r", "e", "s", "a", "l", "e">> :> "resale") @@
  (<<"s", "o", "f", "t", "w", "a", "r", "e">> :> "software_saas") @@
  (<<"s", "a", "a", "s">> :> "software_saas") @@
  (<<"d", "i", "g", "i", "t", "a", "l">> :> "digital_goods")

\* No ExemptionCategory: what _CATEGORY_MAP.get returns for a key it does not hold.
NoCategory == "None"

\* _round_tax with ROUND_HALF_EVEN, the banker's rounding its docstring names.
_round_tax_half_even(num, den) ==
  LET whole == Abs(num) \div den
      rest  == Abs(num) % den
      up    == 2 * rest > den \/ (2 * rest = den /\ whole % 2 = 1)
  IN  Sign(num) * (IF up THEN whole + 1 ELSE whole)

\* _round_tax of the exact value num/den cents (den > 0): quantize to the cent,
\* ROUND_HALF_UP, which rounds to the nearest cent and a tie away from zero.
_round_tax(num, den) ==
  LET whole == Abs(num) \div den
      rest  == Abs(num) % den
  IN  Sign(num) * (IF 2 * rest >= den THEN whole + 1 ELSE whole)

\* _resolve_exemption with the certificate looked at before the customer type.
_resolve_exemption_certificate_first(t) ==
  IF Truthy(t.exemption_certificate)
  THEN [is_exempt |-> TRUE, reason |-> <<"Exemption cert: ", t.exemption_certificate>>]
  ELSE IF t.customer_type \in {"wholesale", "exempt"}
  THEN [is_exempt |-> TRUE, reason |-> <<"Customer type: ", t.customer_type>>]
  ELSE IF Truthy(t.item_category)
  THEN LET cat_key       == strip(lower(t.item_category))
           exemption_cat == IF cat_key \in DOMAIN _CATEGORY_MAP
                            THEN _CATEGORY_MAP[cat_key] ELSE NoCategory
           exempt        == is_exempt(t.state, exemption_cat)
       IN  IF exemption_cat = NoCategory THEN [is_exempt |-> FALSE, reason |-> << >>]
           ELSE IF Raised(exempt) THEN exempt
           ELSE IF exempt.value
           THEN [is_exempt |-> TRUE, reason |-> <<t.state, " exempts ", exemption_cat>>]
           ELSE [is_exempt |-> FALSE, reason |-> << >>]
  ELSE [is_exempt |-> FALSE, reason |-> << >>]

\* TaxCalculator._resolve_exemption; the pair (is_exempt, reason) is a record.
_resolve_exemption(t) ==
  IF t.customer_type \in {"wholesale", "exempt"}
  THEN [is_exempt |-> TRUE, reason |-> <<"Customer type: ", t.customer_type>>]
  ELSE IF Truthy(t.exemption_certificate)
  THEN [is_exempt |-> TRUE, reason |-> <<"Exemption cert: ", t.exemption_certificate>>]
  ELSE IF Truthy(t.item_category)
  THEN LET cat_key       == strip(lower(t.item_category))
           exemption_cat == IF cat_key \in DOMAIN _CATEGORY_MAP
                            THEN _CATEGORY_MAP[cat_key] ELSE NoCategory
           exempt        == is_exempt(t.state, exemption_cat)
       IN  IF exemption_cat = NoCategory THEN [is_exempt |-> FALSE, reason |-> << >>]
           ELSE IF Raised(exempt) THEN exempt
           ELSE IF exempt.value
           THEN [is_exempt |-> TRUE, reason |-> <<t.state, " exempts ", exemption_cat>>]
           ELSE [is_exempt |-> FALSE, reason |-> << >>]
  ELSE [is_exempt |-> FALSE, reason |-> << >>]

\* The local rate calculate resolves for a transaction in a known state.
local_rate_of(t, state) ==
  LET avg_local == state.avg_combined_rate - state.base_rate
      local     == get_local_rate(t.state, t.city)
  IN  IF Truthy(t.city)
      THEN IF local # NoLocal THEN local.rate
           ELSE IF state.has_local_taxes THEN Max(avg_local, 0)
           ELSE 0
      ELSE IF state.has_local_taxes THEN Max(avg_local, 0)
      ELSE 0

\* The back-out done by taking the rate off the amount instead of dividing by
\* one plus the rate.
taxable_amount_of_discount(amount, pricing_model, combined_rate) ==
  IF pricing_model = TAX_INCLUSIVE
  THEN Dec(_round_tax(amount.coeff * (RateScale - combined_rate),
                      RateScale * PerCent(amount)))
  ELSE amount

\* "Compute taxable amount": the tax backed out of a tax-inclusive amount and
\* rounded to the cent, or the amount itself.
taxable_amount_of(amount, pricing_model, combined_rate) ==
  IF pricing_model = TAX_INCLUSIVE
  THEN Dec(_round_tax(amount.coeff * RateScale,
                      (RateScale + combined_rate) * PerCent(amount)))
  ELSE amount

\* The total got by rounding the taxable amount times the combined rate once.
compute_taxes_rounded_once(taxable, state_rate, local_rate) ==
  [state_tax     |-> _round_tax(taxable.coeff * state_rate, RateScale * PerCent(taxable)),
   local_tax_amt |-> _round_tax(taxable.coeff * local_rate, RateScale * PerCent(taxable)),
   total_tax     |-> _round_tax(taxable.coeff * (state_rate + local_rate),
                                RateScale * PerCent(taxable))]

\* state_tax, local_tax_amt and total_tax of calculate, in cents
compute_taxes(taxable, state_rate, local_rate) ==
  LET state_tax     == _round_tax(taxable.coeff * state_rate, RateScale * PerCent(taxable))
      local_tax_amt == _round_tax(taxable.coeff * local_rate, RateScale * PerCent(taxable))
  IN  [state_tax     |-> state_tax,
       local_tax_amt |-> local_tax_amt,
       total_tax     |-> state_tax + local_tax_amt]

\* The taxed branch of calculate: rates, taxable amount, the two taxes.
\* Decimal arithmetic on a special value signals InvalidOperation (sNaN in any
\* operation, Infinity in quantize or times a zero rate).  With the amounts of
\* this model the 28-digit context precision never rounds a quotient.
calculate_taxed(t, state) ==
  LET state_rate    == state.base_rate
      local_rate    == local_rate_of(t, state)
      combined_rate == state_rate + local_rate
      taxable       == taxable_amount_of(t.amount, t.pricing_model, combined_rate)
      taxes         == compute_taxes(taxable, state_rate, local_rate)
      warnings      == IF ~Truthy(t.city) /\ state.has_local_taxes
                       THEN << <<"No city specified for ", t.state,
                                 "; used average local rate">> >>
                       ELSE << >>
  IN  IF ~IsFinite(t.amount) THEN Raise("InvalidOperation")
      ELSE TaxResult(t.transaction_id, taxable, Dec(taxes.total_tax), combined_rate,
                     t.state, t.city, Dec(taxes.state_tax), Dec(taxes.local_tax_amt),
                     FALSE, << >>, warnings)

\* A result with no tax: the unknown state, the no-tax state, the exemption.
ZeroTax(t, is_exempt_, exemption_reason, warnings) ==
  TaxResult(t.transaction_id, t.amount, Dec(0), 0, t.state, t.city, Dec(0), Dec(0),
            is_exempt_, exemption_reason, warnings)

\* calculate with the exemption resolved before the state is looked up.
calculate_exemption_before_lookup(t) ==
  IF t.state = None THEN Raise("AttributeError")
  ELSE
    LET state     == get_state(t.state)
        exemption == _resolve_exemption(t)
    IN  IF Raised(exemption) THEN exemption
        ELSE IF exemption.is_exempt
        THEN ZeroTax(t, TRUE, exemption.reason, << >>)
        ELSE IF state = NoState
        THEN ZeroTax(t, FALSE, << >>, << <<"Unknown state code: ", t.state>> >>)
        ELSE IF state.base_rate = 0 /\ ~state.has_local_taxes
        THEN ZeroTax(t, TRUE, <<state.state_name, " has no sales tax">>, << >>)
        ELSE calculate_taxed(t, state)

\* calculate with the exemption resolved before the no-tax short-circuit.
calculate_exemption_before_no_tax(t) ==
  IF t.state = None THEN Raise("AttributeError")
  ELSE
    LET state     == get_state(t.state)
        exemption == _resolve_exemption(t)
    IN  IF state = NoState
        THEN ZeroTax(t, FALSE, << >>, << <<"Unknown state code: ", t.state>> >>)
        ELSE IF Raised(exemption) THEN exemption
        ELSE IF exemption.is_exempt
        THEN ZeroTax(t, TRUE, exemption.reason, << >>)
        ELSE IF state.base_rate = 0 /\ ~state.has_local_taxes
        THEN ZeroTax(t, TRUE, <<state.state_name, " has no sales tax">>, << >>)
        ELSE calculate_taxed(t, state)

\* TaxCalculator.calculate.  A state of None raises in get_state (None.upper()).
calculate(t) ==
  IF t.state = None THEN Raise("AttributeError")
  ELSE
    LET state     == get_state(t.state)
        exemption == _resolve_exemption(t)
    IN  IF state = NoState
        THEN ZeroTax(t, FALSE, << >>, << <<"Unknown state code: ", t.state>> >>)
        ELSE IF state.base_rate = 0 /\ ~state.has_local_taxes
        THEN ZeroTax(t, TRUE, <<state.state_name, " has no sales tax">>, << >>)
        ELSE IF Raised(exemption) THEN exemption
        ELSE IF exemption.is_exempt
        THEN ZeroTax(t, TRUE, exemption.reason, << >>)
        ELSE calculate_taxed(t, state)

\* Decimal addition: a signalling NaN raises InvalidOperation, Infinity absorbs.
DecAdd(a, b) ==
  IF a.kind = "sNaN" \/ b.kind = "sNaN" THEN Raise("InvalidOperation")
  ELSE IF a.kind = "Infinity" \/ b.kind = "Infinity" THEN Infinity
  ELSE Milli(Mills(a) + Mills(b))

\* The accumulators of calculate_batch before its loop.
BatchStart ==
  [results       |-> << >>,
   errors        |-> << >>,
   total_taxable |-> Dec(0),
   total_tax     |-> Dec(0),
   total_exempt  |-> Dec(0),
   exempt_count  |-> 0,
   state_breakdown |-> << >>]

\* dict[key] = dict.get(key, 0) + amount, the dict a function on its keys.
DictAdd(d, key, amount) ==
  IF key \in DOMAIN d THEN [d EXCEPT ![key] = DecAdd(@, amount)]
  ELSE [k \in DOMAIN d \cup {key} |-> IF k = key THEN amount ELSE d[k]]

\* except Exception as e: errors.append(f"Transaction {id}: {str(e)}")
BatchError(acc, t, e) ==
  [acc EXCEPT !.errors = Append(@, <<"Transaction ", t.transaction_id, ": ", e.exception>>)]

\* The try block of calculate_batch after result = self.calculate(txn), and its
\* handler.  The result is appended before the totals are added, inside the
\* same try block.
BatchRecord(acc, t, r) ==
  LET appended == [acc EXCEPT !.results = Append(@, r)]
      taxable  == DecAdd(acc.total_taxable, r.taxable_amount)
  IN  IF Raised(r) THEN BatchError(acc, t, r)
      ELSE IF Raised(taxable) THEN BatchError(appended, t, taxable)
      ELSE [appended EXCEPT
              !.total_taxable   = taxable,
              !.total_tax       = DecAdd(@, r.tax_amount),
              !.exempt_count    = IF r.is_exempt THEN @ + 1 ELSE @,
              !.total_exempt    = IF r.is_exempt THEN DecAdd(@, r.taxable_amount) ELSE @,
              !.state_breakdown = DictAdd(@, t.state, r.tax_amount)]

\* One pass of the loop of calculate_batch.
BatchStep(acc, t) == BatchRecord(acc, t, calculate(t))

RECURSIVE BatchLoop(_, _, _)
BatchLoop(ts, i, acc) ==
  IF i > Len(ts) THEN acc ELSE BatchLoop(ts, i + 1, BatchStep(acc, ts[i]))

\* TaxCalculator.calculate_batch
calculate_batch(ts) ==
  LET acc == BatchLoop(ts, 1, BatchStart)
  IN  [results           |-> acc.results,
       total_taxable     |-> acc.total_taxable,
       total_tax         |-> acc.total_tax,
       total_exempt      |-> acc.total_exempt,
       transaction_count |-> Len(ts),
       exempt_count      |-> acc.exempt_count,
       state_breakdown   |-> acc.state_breakdown,
       errors            |-> acc.errors]

\* format(d, ".2f") of a finite Decimal, as the cents it shows: two digits after
\* the point, a tie to the even cent (the context's ROUND_HALF_EVEN).
Format2f(d) ==
  LET whole == Abs(d.coeff) \div PerCent(d)
      rest  == Abs(d.coeff) % PerCent(d)
      up    == 2 * rest > PerCent(d) \/ (2 * rest = PerCent(d) /\ whole % 2 = 1)
  IN  Sign(d.coeff) * (IF up THEN whole + 1 ELSE whole)

\* calculate_use_tax after result = self.calculate(txn), with the whole tax
\* already paid as the credit.
use_tax_of_uncapped(r, purchase_amount, destination_state, destination_city, tax_already_paid) ==
  LET credit      == tax_already_paid
      net_use_tax == Milli(Mills(r.tax_amount) - Mills(credit))
  IN  IF Raised(r) THEN r
      ELSE TaxResult("use-tax-calc", purchase_amount,
                     Dec(_round_tax(net_use_tax.coeff, PerCent(net_use_tax))),
                     r.effective_rate, destination_state, destination_city,
                     r.state_tax, r.local_tax, FALSE, << >>,
                     IF Mills(credit) > 0
                     THEN << <<"Credit applied for $", Format2f(credit),
                               " tax already paid">> >>
                     ELSE << >>)

\* calculate_use_tax after result = self.calculate(txn): the credit, the net
\* tax and the TaxResult returned.
use_tax_of(r, purchase_amount, destination_state, destination_city, tax_already_paid) ==
  LET credit      == IF Mills(tax_already_paid) <= Mills(r.tax_amount)
                     THEN tax_already_paid ELSE r.tax_amount
      net_use_tax == Milli(Mills(r.tax_amount) - Mills(credit))
  IN  IF Raised(r) THEN r
      ELSE TaxResult("use-tax-calc", purchase_amount,
                     Dec(_round_tax(net_use_tax.coeff, PerCent(net_use_tax))),
                     r.effective_rate, destination_state, destination_city,
                     r.state_tax, r.local_tax, FALSE, << >>,
                     IF Mills(credit) > 0
                     THEN << <<"Credit applied for $", Format2f(credit),
                               " tax already paid">> >>
                     ELSE << >>)

\* TaxCalculator.calculate_use_tax
calculate_use_tax(purchase_amount, destination_state, destination_city, tax_already_paid) ==
  use_tax_of(calculate(Transaction("use-tax-calc", purchase_amount, destination_state,
                                   destination_city, None, None, "retail", TAX_EXCLUSIVE)),
             purchase_amount, destination_state, destination_city, tax_already_paid)

-----------------------------------------------------------------------------
(* compliance.py *)

\* NexusType
PHYSICAL == "physical"

ECONOMIC == "economic"

_NEXUS_THRESHOLDS ==
  (<<"A", "L">> :> [revenue |-> 250000, transactions |-> << >>, period |-> "prior_year"]) @@
  (<<"A", "K">> :> [revenue |-> 100000, transactions |-> <<200>>, period |-> "current_year"]) @@
  (<<"A", "Z">> :> [revenue |-> 100000, transactions |-> << >>, period |-> "prior_year"]) @@
  (<<"A", "R">> :> [revenue |-> 100000, transactions |-> <<200>>, period |-> "current_or_prior"]) @@
  (<<"C", "A">> :> [revenue |-> 500000, transactions |-> << >>, period |-> "current_or_prior"]) @@
  (<<"C", "O">> :> [revenue |-> 100000, transactions |-> << >>, period |-> "prior_year"]) @@
  (<<"C", "T">> :> [revenue |-> 100000, transactions |-> <<200>>, period |-> "rolling_12"]) @@
  (<<"F", "L">> :> [revenue |-> 100000, transactions |-> << >>, period |-> "prior_year"]) @@
  (<<"G", "A">> :> [revenue |-> 100000, transactions |-> <<200>>, period |-> "current_or_prior"]) @@
  (<<"H", "I">> :> [revenue |-> 100000, transactions |-> <<200>>, period |-> "current_year"]) @@
  (<<"I", "D">> :> [revenue |-> 100000, transactions |-> << >>, period |-> "current_year"]) @@
  (<<"I", "L">> :> [revenue |-> 100000, transactions |-> <<200>>, period |-> "rolling_12"]) @@
  (<<"I", "N">> :> [revenue |-> 100000, transactions |-> <<200>>, period |-> "current_year"]) @@
  (<<"I", "A">> :> [revenue |-> 100000, transactions |-> << >>, period |-> "current_or_prior"]) @@
  (<<"K", "S">> :> [revenue |-> 100000, transactions |-> << >>, period |-> "current_year"]) @@
  (<<"K", "Y">> :> [revenue |-> 100000, transactions |-> <<200>>, period |-> "current_or_prior"]) @@
  (<<"L", "A">> :> [revenue |-> 100000, transactions |-> <<200>>, period |-> "current_or_prior"]) @@
  (<<"M", "E">> :> [revenue |-> 100000, transactions |-> <<200>>, period |-> "current_or_prior"]) @@
  (<<"M", "D">> :> [revenue |-> 100000, transactions |-> <<200>>, period |-> "current_or_prior"]) @@
  (<<"M", "A">> :> [revenue |-> 100000, transactions |-> << >>, period |-> "current_or_prior"]) @@
  (<<"M", "I">> :> [revenue |-> 100000, transactions |-> <<200>>, period |-> "current_or_prior"]) @@
  (<<"M", "N">> :> [revenue |-> 100000, transactions |-> <<10>>, period |-> "rolling_12"]) @@
  (<<"M", "S">> :> [revenue |-> 250000, transactions |-> << >>, period |-> "rolling_12"]) @@
  (<<"M", "O">> :> [revenue |-> 100000, transactions |-> << >>, period |-> "prior_year"]) @@
  (<<"N", "E">> :> [revenue |-> 100000, transactions |-> <<200>>, period |-> "current_or_prior"]) @@
  (<<"N", "V">> :> [revenue |-> 100000, transactions |-> <<200>>, period |-> "current_or_prior"]) @@
  (<<"N", "J">> :> [revenue |-> 100000, transactions |-> <<200>>, period |-> "current_or_prior"]) @@
  (<<"N", "M">> :> [revenue |-> 100000, transactions |-> << >>, period |-> "current_year"]) @@
  (<<"N", "Y">> :> [revenue |-> 500000, transactions |-> <<100>>, period |-> "rolling_4q"]) @@
  (<<"N", "C">> :> [revenue |-> 100000, transactions |-> <<200>>, period |-> "current_or_prior"]) @@
  (<<"N", "D">> :> [revenue |-> 100000, transactions |-> << >>, period |-> "current_or_prior"]) @@
  (<<"O", "H">> :> [revenue |-> 100000, transactions |-> <<200>>, period |-> "current_or_prior"]) @@
  (<<"O", "K">> :> [revenue |-> 100000, transactions |-> << >>, period |-> "current_or_prior"]) @@
  (<<"P", "A">> :> [revenue |-> 100000, transactions |-> << >>, period |-> "current_year"]) @@
  (<<"R", "I">> :> [revenue |-> 100000, transactions |-> <<200>>, period |-> "current_or_prior"]) @@
  (<<"S", "C">> :> [revenue |-> 100000, transactions |-> << >>, period |-> "current_or_prior"]) @@
  (<<"S", "D">> :> [revenue |-> 100000, transactions |-> <<200>>, period |-> "current_or_prior"]) @@
  (<<"T", "N">> :> [revenue |-> 100000, transactions |-> << >>, period |-> "rolling_12"]) @@
  (<<"T", "X">> :> [revenue |-> 500000, transactions |-> << >>, period |-> "rolling_12"]) @@
  (<<"U", "T">> :> [revenue |-> 100000, transactions |-> <<200>>, period |-> "current_or_prior"]) @@
  (<<"V", "T">> :> [revenue |-> 100000, transactions |-> <<200>>, period |-> "rolling_12"]) @@
  (<<"V", "A">> :> [revenue |-> 100000, transactions |-> <<200>>, period |-> "current_or_prior"]) @@
  (<<"W", "A">> :> [revenue |-> 100000, transactions |-> << >>, period |-> "current_or_prior"]) @@
  (<<"W", "V">> :> [revenue |-> 100000, transactions |-> <<200>>, period |-> "current_or_prior"]) @@
  (<<"W", "I">> :> [revenue |-> 100000, transactions |-> << >>, period |-> "current_year"]) @@
  (<<"W", "Y">> :> [revenue |-> 100000, transactions |-> <<200>>, period |-> "current_or_prior"]) @@
  (<<"D", "C">> :> [revenue |-> 100000, transactions |-> <<200>>, period |-> "current_or_prior"])

\* States with no economic nexus (no state sales tax)
_NO_NEXUS_STATES == {<<"D", "E">>, <<"M", "T">>, <<"N", "H">>, <<"O", "R">>}

\* ComplianceChecker._load_thresholds: the NexusThreshold of every entry, the
\* revenue threshold a Decimal of whole dollars.
_nexus_thresholds ==
  [code \in DOMAIN _NEXUS_THRESHOLDS |->
     [state_code            |-> code,
      revenue_threshold     |-> Dec(_NEXUS_THRESHOLDS[code].revenue * 100),
      transaction_threshold |-> _NEXUS_THRESHOLDS[code].transactions,
      measurement_period    |-> _NEXUS_THRESHOLDS[code].period]]

\* A percentage num/den held exactly (the source computes it as a float).
Pct(num, den) == [num |-> num, den |-> den]

\* revenue / revenue_threshold * 100, the threshold a whole number of dollars:
\* cents of revenue per dollar of threshold.
RevenuePct(revenue, revenue_threshold) ==
  Pct(revenue.coeff, (revenue_threshold.coeff \div 100) * PerCent(revenue))

\* pct > n
PctAbove(pct, n) == pct.num > n * pct.den

\* pct >= n
PctAtLeast(pct, n) == pct.num >= n * pct.den

\* The NexusStatus dataclass.
NexusStatus(state_code, has_nexus, nexus_types, revenue_in_state, transactions_in_state, revenue_threshold, transaction_threshold, revenue_pct_of_threshold, transaction_pct_of_threshold, approaching_threshold, details) ==
  [state_code                   |-> state_code,
   has_nexus                    |-> has_nexus,
   nexus_types                  |-> nexus_types,
   revenue_in_state             |-> revenue_in_state,
   transactions_in_state        |-> transactions_in_state,
   revenue_threshold            |-> revenue_threshold,
   transaction_threshold        |-> transaction_threshold,
   revenue_pct_of_threshold     |-> revenue_pct_of_threshold,
   transaction_pct_of_threshold |-> transaction_pct_of_threshold,
   approaching_threshold        |-> approaching_threshold,
   details                      |-> details]

\* economic_nexus with a threshold that has to be exceeded.
economic_nexus_strict(threshold, revenue, transaction_count) ==
  IF Mills(revenue) > Mills(threshold.revenue_threshold) THEN TRUE
  ELSE IF threshold.transaction_threshold # << >>
  THEN transaction_count > threshold.transaction_threshold[1]
  ELSE FALSE

\* economic_nexus in check_nexus
economic_nexus_of(threshold, revenue, transaction_count) ==
  IF Mills(revenue) >= Mills(threshold.revenue_threshold) THEN TRUE
  ELSE IF threshold.transaction_threshold # << >>
  THEN transaction_count >= threshold.transaction_threshold[1]
  ELSE FALSE

\* The branch of check_nexus for a state that has a threshold entry.
check_nexus_threshold(state_code, threshold, revenue, transaction_count, physical_presence) ==
  LET has_txn_threshold == threshold.transaction_threshold # << >>
      rev_pct == IF threshold.revenue_threshold.coeff > 0
                 THEN RevenuePct(revenue, threshold.revenue_threshold)
                 ELSE Pct(0, 1)
      txn_pct == IF has_txn_threshold
                 THEN <<Pct(transaction_count * 100, threshold.transaction_threshold[1])>>
                 ELSE << >>
      economic_nexus == economic_nexus_of(threshold, revenue, transaction_count)
      nexus_types == (IF physical_presence THEN <<PHYSICAL>> ELSE << >>)
                     \o (IF economic_nexus THEN <<ECONOMIC>> ELSE << >>)
      has_nexus   == Len(nexus_types) > 0
      approaching == PctAtLeast(rev_pct, 80)
                     \/ (txn_pct # << >> /\ PctAtLeast(txn_pct[1], 80))
      details_parts ==
        << <<"Revenue: $", revenue, " / $", threshold.revenue_threshold, " (", rev_pct, "%)">> >>
        \o (IF has_txn_threshold
            THEN << <<"Transactions: ", transaction_count, " / ",
                      threshold.transaction_threshold[1], " (", txn_pct[1], "%)">> >>
            ELSE << >>)
        \o << <<"Period: ", threshold.measurement_period>> >>
  IN  NexusStatus(state_code, has_nexus, nexus_types, revenue, transaction_count,
                  threshold.revenue_threshold, threshold.transaction_threshold,
                  rev_pct, txn_pct, approaching /\ ~has_nexus, details_parts)

\* ComplianceChecker.check_nexus
check_nexus(state_code_, revenue, transaction_count, physical_presence) ==
  LET state_code == upper(state_code_)
  IN  IF state_code \in _NO_NEXUS_STATES
      THEN NexusStatus(state_code, FALSE, << >>, revenue, transaction_count,
                       Dec(0), << >>, Pct(0, 1), << >>, FALSE,
                       << <<state_code, " has no sales tax">> >>)
      ELSE IF state_code \notin DOMAIN _nexus_thresholds
      THEN NexusStatus(state_code, physical_presence,
                       IF physical_presence THEN <<PHYSICAL>> ELSE << >>,
                       revenue, transaction_count,
                       Dec(0), << >>, Pct(0, 1), << >>, FALSE,
                       << <<"No economic nexus data available">> >>)
      ELSE check_nexus_threshold(state_code, _nexus_thresholds[state_code], revenue,
                                 transaction_count, physical_presence)

-----------------------------------------------------------------------------
(* datetime.date *)

\* date(year, month, day), for a date of the calendar
date(year, month, day) == [year |-> year, month |-> month, day |-> day]

\* Optional[date] = None
NoDate == [none |-> "date"]

IsLeap(year) == year % 4 = 0 /\ (year % 100 # 0 \/ year % 400 = 0)

DaysInMonth(year, month) ==
  IF month = 2 THEN (IF IsLeap(year) THEN 29 ELSE 28)
  ELSE IF month \in {4, 6, 9, 11} THEN 30 ELSE 31

\* number of days before January 1st of the year
DaysBeforeYear(year) ==
  (year - 1) * 365 + (year - 1) \div 4 - (year - 1) \div 100 + (year - 1) \div 400

\* number of days of a common year before the first day of each month
_DAYS_BEFORE_MONTH == <<0, 31, 59, 90, 120, 151, 181, 212, 243, 273, 304, 334>>

\* number of days of the year before the first day of the month
DaysBeforeMonth(year, month) ==
  _DAYS_BEFORE_MONTH[month] + (IF month > 2 /\ IsLeap(year) THEN 1 ELSE 0)

\* date.toordinal(): January 1st of year 1 is day 1
toordinal(d) == DaysBeforeYear(d.year) + DaysBeforeMonth(d.year, d.month) + d.day

\* date.fromordinal(n)
fromordinal(n) ==
  LET year  == CHOOSE y \in (n \div 366) .. (n \div 365 + 1) :
                 DaysBeforeYear(y) < n /\ n <= DaysBeforeYear(y + 1)
      month == CHOOSE m \in 1 .. 12 :
                 /\ DaysBeforeYear(year) + DaysBeforeMonth(year, m) < n
                 /\ n <= DaysBeforeYear(year) + DaysBeforeMonth(year, m)
                           + DaysInMonth(year, m)
  IN  date(year, month, n - DaysBeforeYear(year) - DaysBeforeMonth(year, month))

\* d - timedelta(days=days)
DateMinusDays(d, days) == fromordinal(toordinal(d) - days)

\* (a - b).days
DaysBetween(a, b) == toordinal(a) - toordinal(b)

\* a <= b for dates
DateNotAfter(a, b) ==
  \/ a.year < b.year
  \/ a.year = b.year /\ a.month < b.month
  \/ a.year = b.year /\ a.month = b.month /\ a.day <= b.day

\* a < b for dates: by year, then month, then day
DateLess(a, b) ==
  \/ a.year < b.year
  \/ a.year = b.year /\ a.month < b.month
  \/ a.year = b.year /\ a.month = b.month /\ a.day < b.day

\* date.isoformat(): "YYYY-MM-DD", the tuple of its parts
isoformat(d) == <<d.year, "-", d.month, "-", d.day>>

-----------------------------------------------------------------------------
(* compliance.py: filing deadlines *)

\* FilingFrequency
MONTHLY == "monthly"

QUARTERLY == "quarterly"

SEMI_ANNUAL == "semi_annual"

ANNUAL == "annual"

\* Optional[FilingFrequency] = None
NoFrequency == "None"

_FILING_DUE_DAY ==
  (<<"d", "e", "f", "a", "u", "l", "t">> :> 20) @@
  (<<"C", "A">> :> 25) @@
  (<<"F", "L">> :> 20) @@
  (<<"N", "Y">> :> 20) @@
  (<<"T", "X">> :> 20) @@
  (<<"I", "L">> :> 20) @@
  (<<"P", "A">> :> 20) @@
  (<<"O", "H">> :> 23) @@
  (<<"N", "J">> :> 20) @@
  (<<"W", "A">> :> 25) @@
  (<<"G", "A">> :> 20)

\* _get_due_day
_get_due_day(state_code) ==
  DictGet(_FILING_DUE_DAY, state_code, _FILING_DUE_DAY[<<"d", "e", "f", "a", "u", "l", "t">>])

\* _compute_due_date with the month after December taken in the same year.
_compute_due_date_same_year(period_end, state_code) ==
  date(period_end.year, (period_end.month % 12) + 1, _get_due_day(state_code))

\* _compute_due_date
_compute_due_date(period_end, state_code) ==
  IF period_end.month = 12
  THEN date(period_end.year + 1, 1, _get_due_day(state_code))
  ELSE date(period_end.year, period_end.month + 1, _get_due_day(state_code))

\* _determine_frequency with thresholds that have to be exceeded, as its
\* docstring words them.
_determine_frequency_above(annual_liability) ==
  IF Mills(annual_liability) > 4800 * 1000 THEN MONTHLY
  ELSE IF Mills(annual_liability) > 1200 * 1000 THEN QUARTERLY
  ELSE ANNUAL

\* _determine_frequency
_determine_frequency(annual_liability) ==
  IF Mills(annual_liability) >= 4800 * 1000 THEN MONTHLY
  ELSE IF Mills(annual_liability) >= 1200 * 1000 THEN QUARTERLY
  ELSE ANNUAL

\* Objects that are mutated in place (a set, a dict) live in the heap, a
\* sequence of values; a reference to one is its index.  A ComplianceChecker
\* is the record of the references its attributes hold.

\* ComplianceChecker.__init__ with the set and the dict taken from the objects
\* the first checker made, as class-level attributes would be.
ComplianceChecker__init__shared(h) ==
  IF Len(h) < 2
  THEN [heap |-> h \o <<{}, << >> >>,
        self |-> [_registered_states |-> Len(h) + 1, _filed_periods |-> Len(h) + 2]]
  ELSE [heap |-> h, self |-> [_registered_states |-> 1, _filed_periods |-> 2]]

\* ComplianceChecker.__init__: a new empty set and a new empty dict.  (The
\* thresholds it loads are the same table for every checker, _nexus_thresholds.)
ComplianceChecker__init__(h) ==
  [heap |-> h \o <<{}, << >> >>,
   self |-> [_registered_states |-> Len(h) + 1, _filed_periods |-> Len(h) + 2]]

\* ComplianceChecker.register_state: the heap after the call
register_state(h, self, state_code) ==
  [h EXCEPT ![self._registered_states] = @ \cup {upper(state_code)}]

\* f"{period_start.isoformat()}_{period_end.isoformat()}"
PeriodKey(period_start, period_end) ==
  <<isoformat(period_start), "_", isoformat(period_end)>>

\* self._filed_periods[state_code].add(key), the set made first when missing
FiledAdd(filed, state_code, key) ==
  [code \in DOMAIN filed \cup {state_code} |->
     IF code = state_code
     THEN (IF state_code \in DOMAIN filed THEN filed[state_code] ELSE {}) \cup {key}
     ELSE filed[code]]

\* mark_filed with the set of the state made anew at every call.
mark_filed_replacing(h, self, state_code, period_start, period_end) ==
  [h EXCEPT ![self._filed_periods] =
     [code \in DOMAIN @ \cup {state_code} |->
        IF code = state_code THEN {PeriodKey(period_start, period_end)} ELSE @[code]]]

\* ComplianceChecker.mark_filed: the heap after the call
mark_filed(h, self, state_code, period_start, period_end) ==
  [h EXCEPT ![self._filed_periods] =
     FiledAdd(@, state_code, PeriodKey(period_start, period_end))]

\* estimated_annual_liability / n: the quotient, which Decimal rounds to 28
\* significant digits, held as the pair it is the quotient of.
Quotient(amount, n) == [dividend |-> amount, divisor |-> n]

\* The FilingDeadline dataclass.
FilingDeadline(state_code, period_start, period_end, due_date, frequency, is_overdue, days_until_due, estimated_liability, status) ==
  [state_code          |-> state_code,
   period_start        |-> period_start,
   period_end          |-> period_end,
   due_date            |-> due_date,
   frequency           |-> frequency,
   is_overdue          |-> is_overdue,
   days_until_due      |-> days_until_due,
   estimated_liability |-> estimated_liability,
   status              |-> status]

\* is_filed: state_code in self._filed_periods and period_key in its set
is_filed_of(filed, state_code, period_key) ==
  state_code \in DOMAIN filed /\ period_key \in filed[state_code]

\* The FilingDeadline appended once the due date and is_filed are known.
DeadlineDue(state_code, p_start, p_end, due, freq, is_filed, ref_date, estimated_liability) ==
  FilingDeadline(state_code, p_start, p_end, due, freq,
                 DateLess(due, ref_date) /\ ~is_filed,
                 DaysBetween(due, ref_date),
                 estimated_liability,
                 IF is_filed THEN "filed"
                 ELSE IF DateLess(due, ref_date) /\ ~is_filed THEN "overdue"
                 ELSE "pending")

\* The body the three branches of get_filing_deadlines share: due date, period
\* key, is_filed, is_overdue, days_until, and the FilingDeadline appended.
DeadlineOf(filed, state_code, p_start, p_end, freq, ref_date, estimated_liability) ==
  DeadlineDue(state_code, p_start, p_end, _compute_due_date(p_end, state_code), freq,
              is_filed_of(filed, state_code, PeriodKey(p_start, p_end)),
              ref_date, estimated_liability)

\* p_end of the monthly branch
MonthEnd(year, month) ==
  IF month = 12 THEN date(year, 12, 31)
  ELSE DateMinusDays(date(year, month + 1, 1), 1)

\* quarters of the quarterly branch
Quarters(year) ==
  << <<date(year, 1, 1), date(year, 3, 31)>>,
     <<date(year, 4, 1), date(year, 6, 30)>>,
     <<date(year, 7, 1), date(year, 9, 30)>>,
     <<date(year, 10, 1), date(year, 12, 31)>> >>

\* get_filing_deadlines once ref_date and freq are resolved; a frequency that
\* is none of the three (SEMI_ANNUAL) leaves the list empty.
DeadlinesFor(filed, state_code, year, freq, liability, ref_date) ==
  IF freq = MONTHLY
  THEN [month \in 1 .. 12 |->
          DeadlineOf(filed, state_code, date(year, month, 1), MonthEnd(year, month),
                     freq, ref_date, Quotient(liability, 12))]
  ELSE IF freq = QUARTERLY
  THEN [q \in 1 .. 4 |->
          DeadlineOf(filed, state_code, Quarters(year)[q][1], Quarters(year)[q][2],
                     freq, ref_date, Quotient(liability, 4))]
  ELSE IF freq = ANNUAL
  THEN << DeadlineOf(filed, state_code, date(year, 1, 1), date(year, 12, 31),
                     freq, ref_date, liability) >>
  ELSE << >>

\* ComplianceChecker.get_filing_deadlines; today is date.today().
get_filing_deadlines(h, self, state_code, year, frequency, estimated_annual_liability, as_of, today) ==
  DeadlinesFor(h[self._filed_periods], state_code, year,
               IF frequency # NoFrequency THEN frequency
               ELSE _determine_frequency(estimated_annual_liability),
               estimated_annual_liability,
               IF as_of # NoDate THEN as_of ELSE today)

\* sorted(seq, key=...): the stable sort of seq by the integer keys key[i],
\* descending with reverse=True; elements of equal key keep their order.
sorted(seq, key, reverse) ==
  LET Before(j, i) == \/ (IF reverse THEN key[j] > key[i] ELSE key[j] < key[i])
                      \/ (key[j] = key[i] /\ j < i)
  IN  [p \in DOMAIN seq |->
         seq[CHOOSE i \in DOMAIN seq :
               Cardinality({j \in DOMAIN seq : Before(j, i)}) = p - 1]]

\* The concatenation of the sequences of seqs, as a loop of extend builds it.
RECURSIVE Extend(_)
Extend(seqs) ==
  IF seqs = << >> THEN << >> ELSE Head(seqs) \o Extend(Tail(seqs))

\* The orders a set can be iterated in: Python fixes none.
IterationOrders(S) ==
  {order \in [1 .. Cardinality(S) -> S] : {order[i] : i \in DOMAIN order} = S}

\* A dict given by the caller is the sequence of its items <<key, value>>, in
\* the order they were inserted: its keys, and dict.get.
dict_keys(items) == {items[k][1] : k \in DOMAIN items}

ItemsGet(items, key, default) ==
  IF key \in dict_keys(items)
  THEN items[CHOOSE k \in DOMAIN items : items[k][1] = key][2]
  ELSE default

\* Every threshold is a whole number of dollars that divides 500000: the
\* percentages are compared as whole numbers of 1/500000 percent.  (The floats
\* of the source are as far apart as the amounts, at least a cent of revenue.)
PctKey(pct) == pct.num * (500000 \div pct.den)

\* ComplianceChecker.check_nexus_all_states.  An Optional[set] is << >> for None
\* and <<set>> otherwise; all_states is the order the set all_states is
\* iterated in.
check_nexus_all_states(state_revenues, state_transactions, physical_states, all_states) ==
  LET physical == IF physical_states # << >> THEN physical_states[1] ELSE {}
      results  == [k \in DOMAIN all_states |->
                     check_nexus(all_states[k],
                                 ItemsGet(state_revenues, all_states[k], Dec(0)),
                                 ItemsGet(state_transactions, all_states[k], 0),
                                 upper(all_states[k]) \in physical)]
  IN  sorted(results, [k \in DOMAIN results |-> PctKey(results[k].revenue_pct_of_threshold)],
             TRUE)

\* ComplianceChecker.get_overdue_filings.  An Optional[list] is << >> for None
\* and <<list>> otherwise; states_order is the order list(self._registered_states)
\* has, used when registered_states is None or empty.
get_overdue_filings(h, self, registered_states, year, as_of, today, states_order) ==
  LET states  == IF registered_states # << >> /\ registered_states[1] # << >>
                 THEN registered_states[1] ELSE states_order
      overdue == Extend([k \in DOMAIN states |->
                           SelectSeq(get_filing_deadlines(h, self, states[k], year, NoFrequency,
                                                          Dec(0), as_of, today),
                                     LAMBDA d : d.is_overdue)])
  IN  sorted(overdue, [k \in DOMAIN overdue |-> toordinal(overdue[k].due_date)], FALSE)

\* The ComplianceAlert dataclass.
ComplianceAlert(severity, state_code, message, action_required, deadline) ==
  [severity        |-> severity,
   state_code      |-> state_code,
   message         |-> message,
   action_required |-> action_required,
   deadline        |-> deadline]

\* registered of generate_alerts
registered_of(h, self, registered_states) ==
  IF registered_states # << >> /\ registered_states[1] # << >>
  THEN {upper(s) : s \in {registered_states[1][k] : k \in DOMAIN registered_states[1]}}
  ELSE {upper(s) : s \in h[self._registered_states]}

\* The body of the nexus loop of generate_alerts: the alerts it appends for
\* one state, status being check_nexus of it.
nexus_alerts(state, status, registered) ==
  IF status.has_nexus /\ upper(state) \notin registered
  THEN << ComplianceAlert("critical", state,
            <<"Economic nexus established in ", state,
              " but not registered for sales tax collection">>,
            <<"Register for sales tax in ", state, " immediately. Revenue: $",
              Format2f(status.revenue_in_state)>>,
            NoDate) >>
  ELSE IF status.approaching_threshold
  THEN << ComplianceAlert("warning", state,
            <<"Approaching economic nexus threshold in ", state, " (",
              _round_tax_half_even(status.revenue_pct_of_threshold.num,
                                   status.revenue_pct_of_threshold.den),
              "% of revenue limit)">>,
            <<"Monitor ", state, " activity. Prepare registration materials proactively.">>,
            NoDate) >>
  ELSE << >>

\* The body of the overdue loop with an alert for every deadline that is not
\* filed, due or not.
overdue_alerts_unfiled(state, d, ref_date) ==
  IF d.status # "filed"
  THEN << ComplianceAlert(IF DaysBetween(ref_date, d.due_date) > 30 THEN "critical" ELSE "warning",
            state,
            <<state, " return for ", isoformat(d.period_start), " to ",
              isoformat(d.period_end), " is ", DaysBetween(ref_date, d.due_date),
              " days past due">>,
            <<"File ", state, " return immediately. Late penalties may apply.">>,
            d.due_date) >>
  ELSE << >>

\* The body of the overdue loop of generate_alerts for one deadline
overdue_alerts(state, d, ref_date) ==
  IF d.is_overdue
  THEN << ComplianceAlert(IF DaysBetween(ref_date, d.due_date) > 30 THEN "critical" ELSE "warning",
            state,
            <<state, " return for ", isoformat(d.period_start), " to ",
              isoformat(d.period_end), " is ", DaysBetween(ref_date, d.due_date),
              " days past due">>,
            <<"File ", state, " return immediately. Late penalties may apply.">>,
            d.due_date) >>
  ELSE << >>

\* The sort key of generate_alerts
severity_key(a) ==
  IF a.severity = "critical" THEN 0 ELSE IF a.severity = "warning" THEN 1 ELSE 2

\* The overdue loop with an alert for the deadlines that are pending as well.
state_pending_alerts(state, deadlines, ref_date) ==
  Extend([n \in DOMAIN deadlines |-> overdue_alerts_unfiled(state, deadlines[n], ref_date)])

\* The overdue loop of generate_alerts for one state, deadlines being
\* get_filing_deadlines(state, ref_date.year, as_of=ref_date).
state_overdue_alerts(state, deadlines, ref_date) ==
  Extend([n \in DOMAIN deadlines |-> overdue_alerts(state, deadlines[n], ref_date)])

\* The alerts of generate_alerts before they are sorted.  states is the order
\* the union of the keys is iterated in, registered the order the registered
\* set is.
alerts_of(h, self, state_revenues, state_transactions, ref_date, registered_set, states, registered) ==
  Extend([k \in DOMAIN states |->
            nexus_alerts(states[k],
                         check_nexus(states[k], DictGet(state_revenues, states[k], Dec(0)),
                                     DictGet(state_transactions, states[k], 0), FALSE),
                         registered_set)])
  \o Extend([k \in DOMAIN registered |->
               state_overdue_alerts(registered[k],
                                    get_filing_deadlines(h, self, registered[k], ref_date.year,
                                                         NoFrequency, Dec(0), ref_date, ref_date),
                                    ref_date)])

\* The alerts as appended, returned without the sort.
unsorted_alerts(alerts) == alerts

\* sorted(alerts, key=...) of generate_alerts
sorted_alerts(alerts) ==
  sorted(alerts, [k \in DOMAIN alerts |-> severity_key(alerts[k])], FALSE)

\* ComplianceChecker.generate_alerts; today is date.today(), states and
\* registered are the orders the two sets are iterated in.
generate_alerts(h, self, state_revenues, state_transactions, registered_states, as_of, today, states, registered) ==
  sorted_alerts(alerts_of(h, self, state_revenues, state_transactions,
                          IF as_of # NoDate THEN as_of ELSE today,
                          registered_of(h, self, registered_states), states, registered))

-----------------------------------------------------------------------------
(* refund_analyzer.py *)

\* date(year, month, day) as the constructor checks it: ValueError for a year
\* outside 1 .. 9999 or a day the month does not have.
new_date(year, month, day) ==
  IF year \in 1 .. 9999 /\ month \in 1 .. 12 /\ day \in 1 .. DaysInMonth(year, month)
  THEN date(year, month, day)
  ELSE Raise("ValueError")

\* A Transaction with its transaction_date.
dated(t, transaction_date) ==
  [f \in DOMAIN t \cup {"transaction_date"} |->
     IF f = "transaction_date" THEN transaction_date ELSE t[f]]

\* The OverpaymentRecord dataclass.
OverpaymentRecord(transaction_id, transaction_date, state, city, sale_amount, tax_paid, tax_owed, overpayment, reason, refund_eligible, statute_of_limitations_date) ==
  [transaction_id              |-> transaction_id,
   transaction_date            |-> transaction_date,
   state                       |-> state,
   city                        |-> city,
   sale_amount                 |-> sale_amount,
   tax_paid                    |-> tax_paid,
   tax_owed                    |-> tax_owed,
   overpayment                 |-> overpayment,
   reason                      |-> reason,
   refund_eligible             |-> refund_eligible,
   statute_of_limitations_date |-> statute_of_limitations_date]

\* Optional[OverpaymentRecord] = None
NoRecord == [none |-> "OverpaymentRecord"]

_STATUTE_OF_LIMITATIONS ==
  (<<"d", "e", "f", "a", "u", "l", "t">> :> 3) @@
  (<<"C", "A">> :> 3) @@
  (<<"N", "Y">> :> 3) @@
  (<<"T", "X">> :> 4) @@
  (<<"F", "L">> :> 3) @@
  (<<"I", "L">> :> 4) @@
  (<<"P", "A">> :> 3) @@
  (<<"O", "H">> :> 4) @@
  (<<"N", "J">> :> 4) @@
  (<<"W", "A">> :> 4) @@
  (<<"G", "A">> :> 3) @@
  (<<"N", "C">> :> 3) @@
  (<<"V", "A">> :> 3) @@
  (<<"M", "A">> :> 3) @@
  (<<"M", "N">> :> 3) @@
  (<<"C", "O">> :> 3) @@
  (<<"S", "C">> :> 3) @@
  (<<"A", "Z">> :> 4) @@
  (<<"T", "N">> :> 3) @@
  (<<"M", "O">> :> 3)

\* The years of every state, listed or not.
_get_sol_years_default(state_code) ==
  _STATUTE_OF_LIMITATIONS[<<"d", "e", "f", "a", "u", "l", "t">>]

_get_sol_years(state_code) ==
  DictGet(_STATUTE_OF_LIMITATIONS, state_code,
          _STATUTE_OF_LIMITATIONS[<<"d", "e", "f", "a", "u", "l", "t">>])

\* Decimal("0.85")
_ESTIMATED_RECOVERY_RATE == [kind |-> "finite", coeff |-> 85, exp |-> 2]

\* a - b for finite Decimals
DecSub(a, b) == Milli(Mills(a) - Mills(b))

\* a * b for finite Decimals of two digits after the point: four digits
DecMul(a, b) == [kind |-> "finite", coeff |-> a.coeff * b.coeff, exp |-> 4]

\* The number of units of the last digit of d in one cent.
PerCentOf(d) == IF d.exp = 4 THEN 100 ELSE PerCent(d)

\* amount.quantize(Decimal("0.01")) with ROUND_HALF_EVEN
_round_half_even(amount) == Dec(_round_tax_half_even(amount.coeff, PerCentOf(amount)))

\* _round: amount.quantize(Decimal("0.01"), rounding=ROUND_HALF_UP)
_round(amount) ==
  LET whole == Abs(amount.coeff) \div PerCentOf(amount)
      rest  == Abs(amount.coeff) % PerCentOf(amount)
  IN  Dec(Sign(amount.coeff) * (IF 2 * rest >= PerCentOf(amount) THEN whole + 1 ELSE whole))

\* RefundAnalyzer._check_statute_of_limitations; today is date.today().
_check_statute_of_limitations(txn_date, state_code, as_of, today) ==
  LET ref       == IF as_of # NoDate THEN as_of ELSE today
      sol_years == _get_sol_years(state_code)
      cutoff    == new_date(ref.year - sol_years, ref.month, ref.day)
      sol_date  == new_date(txn_date.year + sol_years, txn_date.month, txn_date.day)
  IN  IF Raised(cutoff) THEN cutoff
      ELSE IF Raised(sol_date) THEN sol_date
      ELSE [eligible |-> ~DateLess(txn_date, cutoff), sol_date |-> sol_date]

\* reason of analyze_transaction.  The two rates of a rate mismatch, which the
\* code formats as percentages of four decimals, are kept as they are: the
\* quotient tax_paid / txn.amount and the effective rate.
reason_of(t, tax_paid, r) ==
  IF r.is_exempt
  THEN <<"Exempt transaction taxed", ": ", r.exemption_reason>>
  ELSE IF Mills(tax_paid) > Mills(r.tax_amount)
  THEN IF r.tax_amount.coeff > 0
       THEN <<"Rate mismatch", ": paid ", Quotient(tax_paid, t.amount),
              ", correct rate ", r.effective_rate>>
       ELSE <<"Tax collected in no-tax jurisdiction">>
  ELSE <<"Overpayment detected">>

\* record.reason.split(":")[0]: the text before the first colon
reason_key(reason) == reason[1]

\* analyze_transaction once the overpayment is found positive: the statute of
\* limitations check and the record.
overpayment_record(t, tax_paid, r, overpayment, sol) ==
  IF Raised(sol) THEN sol
  ELSE OverpaymentRecord(t.transaction_id, t.transaction_date, t.state, t.city,
                         t.amount, tax_paid, r.tax_amount, overpayment,
                         reason_of(t, tax_paid, r), sol.eligible, sol.sol_date)

\* analyze_transaction after self.calculator.calculate(txn) returned result r
analyze_result(t, tax_paid, r, as_of, today) ==
  IF _round(DecSub(tax_paid, r.tax_amount)).coeff <= 0 THEN NoRecord
  ELSE overpayment_record(t, tax_paid, r, _round(DecSub(tax_paid, r.tax_amount)),
                          _check_statute_of_limitations(t.transaction_date, t.state,
                                                        as_of, today))

\* RefundAnalyzer.analyze_transaction; today is date.today().
analyze_transaction(t, tax_paid, as_of, today) ==
  IF Raised(calculate(t)) THEN calculate(t)
  ELSE analyze_result(t, tax_paid, calculate(t), as_of, today)

\* The RefundSummary dataclass.
RefundSummary(total_overpayment, total_transactions_reviewed, overpayment_count, records, state_breakdown, reason_breakdown, oldest_eligible, newest_eligible, estimated_recovery, warnings) ==
  [total_overpayment           |-> total_overpayment,
   total_transactions_reviewed |-> total_transactions_reviewed,
   overpayment_count           |-> overpayment_count,
   records                     |-> records,
   state_breakdown             |-> state_breakdown,
   reason_breakdown            |-> reason_breakdown,
   oldest_eligible             |-> oldest_eligible,
   newest_eligible             |-> newest_eligible,
   estimated_recovery          |-> estimated_recovery,
   warnings                    |-> warnings]

\* The RefundClaim dataclass.
RefundClaim(state_code, claim_period_start, claim_period_end, total_refund_requested, transaction_count, records, supporting_reasons, filing_notes) ==
  [state_code             |-> state_code,
   claim_period_start     |-> claim_period_start,
   claim_period_end       |-> claim_period_end,
   total_refund_requested |-> total_refund_requested,
   transaction_count      |-> transaction_count,
   records                |-> records,
   supporting_reasons     |-> supporting_reasons,
   filing_notes           |-> filing_notes]

\* The locals of analyze_batch before its loop.
RefundStart ==
  [records           |-> << >>,
   total_overpayment |-> Dec(0),
   state_totals      |-> << >>,
   reason_totals     |-> << >>,
   warnings          |-> << >>]

\* The body of the loop of analyze_batch, record being what analyze_transaction
\* gave for the pair: an exception it raised ends the batch.
RefundStep(acc, record) ==
  IF Raised(acc) THEN acc
  ELSE IF Raised(record) THEN record
  ELSE IF record = NoRecord THEN acc
  ELSE [records           |-> Append(acc.records, record),
        total_overpayment |-> DecAdd(acc.total_overpayment, record.overpayment),
        state_totals      |-> DictAdd(acc.state_totals, record.state, record.overpayment),
        reason_totals     |-> DictAdd(acc.reason_totals, reason_key(record.reason),
                                      record.overpayment),
        warnings          |->
          IF record.refund_eligible THEN acc.warnings
          ELSE Append(acc.warnings,
                      <<"Transaction ", record.transaction_id, " in ", record.state,
                        " is past statute of limitations ($",
                        Format2f(record.overpayment), ")">>)]

RECURSIVE RefundLoop(_, _, _, _, _)
RefundLoop(pairs, i, acc, as_of, today) ==
  IF i > Len(pairs) THEN acc
  ELSE RefundLoop(pairs, i + 1,
                  RefundStep(acc, analyze_transaction(pairs[i][1], pairs[i][2], as_of, today)),
                  as_of, today)

\* sum((r.overpayment for r in records), Decimal("0"))
RECURSIVE sum_overpayment(_)
sum_overpayment(records) ==
  IF records = << >> THEN Dec(0)
  ELSE DecAdd(sum_overpayment(SubSeq(records, 1, Len(records) - 1)),
              records[Len(records)].overpayment)

\* min(dates) and max(dates)
min_date(dates) ==
  dates[CHOOSE i \in DOMAIN dates : \A j \in DOMAIN dates : ~DateLess(dates[j], dates[i])]

max_date(dates) ==
  dates[CHOOSE i \in DOMAIN dates : \A j \in DOMAIN dates : ~DateLess(dates[i], dates[j])]

\* Every record taken as eligible.
eligible_of_all(records) == records

\* The records of a list that are refund_eligible.
eligible_of(records) == SelectSeq(records, LAMBDA r : r.refund_eligible)

\* The RefundSummary analyze_batch returns after its loop.
summary_of(pairs, acc, eligible_records) ==
  RefundSummary(acc.total_overpayment, Len(pairs), Len(acc.records), acc.records,
                acc.state_totals, acc.reason_totals,
                IF eligible_records # << >>
                THEN min_date([k \in DOMAIN eligible_records |->
                                 eligible_records[k].transaction_date])
                ELSE NoDate,
                IF eligible_records # << >>
                THEN max_date([k \in DOMAIN eligible_records |->
                                 eligible_records[k].transaction_date])
                ELSE NoDate,
                _round(DecMul(sum_overpayment(eligible_records), _ESTIMATED_RECOVERY_RATE)),
                acc.warnings)

\* analyze_batch once its loop has ended with the locals acc
batch_summary(pairs, acc) ==
  IF Raised(acc) THEN acc ELSE summary_of(pairs, acc, eligible_of(acc.records))

\* RefundAnalyzer.analyze_batch; today is date.today().
analyze_batch(pairs, as_of, today) ==
  batch_summary(pairs, RefundLoop(pairs, 1, RefundStart, as_of, today))

\* The keys of state_records in the order they are inserted: the states of the
\* eligible records, each at its first record.
state_order(records) ==
  LET eligible == eligible_of(records)
      first    == SelectSeq([k \in DOMAIN eligible |-> k],
                            LAMBDA k : \A j \in 1 .. k - 1 : eligible[j].state # eligible[k].state)
  IN  [n \in DOMAIN first |-> eligible[first[n]].state]

\* The reasons of the records of a claim, before the colon.
reasons_of(records) == {reason_key(records[k].reason) : k \in DOMAIN records}

\* The RefundClaim of one state: records are the eligible records of the
\* state, reasons the list made of the set of their reasons.
claim_of(state_code, records, total, reasons) ==
  RefundClaim(state_code,
              min_date([k \in DOMAIN records |-> records[k].transaction_date]),
              max_date([k \in DOMAIN records |-> records[k].transaction_date]),
              total, Len(records), records, reasons,
              <<"Refund claim for ", Len(records), " transactions. SOL: ",
                _get_sol_years(state_code), " years from transaction date. Total requested: $",
                Format2f(total)>>)

\* claims of generate_refund_claims, in the order of the keys of
\* state_records; list_of[state] is the order list({...}) gives its reasons.
claims_of(records, states, list_of) ==
  [n \in DOMAIN states |->
     claim_of(states[n],
              SelectSeq(eligible_of(records), LAMBDA r : r.state = states[n]),
              sum_overpayment(SelectSeq(eligible_of(records), LAMBDA r : r.state = states[n])),
              list_of[states[n]])]

\* sorted(claims, key=lambda c: c.total_refund_requested, reverse=True)
sorted_claims(claims) ==
  sorted(claims, [k \in DOMAIN claims |-> Mills(claims[k].total_refund_requested)], TRUE)

\* RefundAnalyzer.generate_refund_claims
generate_refund_claims(summary, list_of) ==
  sorted_claims(claims_of(summary.records, state_order(summary.records), list_of))

-----------------------------------------------------------------------------
(* The inputs the operations are applied to *)

\* Transaction amounts are -MaxAmount .. MaxAmount cents.
MaxAmount == 40

\* calculate_batch is given at most MaxBatch transactions.
MaxBatch == 3

\* Amounts that are not whole cents are -MaxMills .. MaxMills thousandths, and
\* 4.000 + 0 .. MaxMills thousandths.
MaxMills == 70

\* Purchase amounts are -MaxPurchase .. MaxPurchase cents, the tax already paid
\* -MaxPaid .. MaxPaid thousandths.
MaxPurchase == 20

MaxPaid == 35

\* Transaction counts are 0 .. MaxCount around each threshold step.
MaxCount == 2

TX == <<"T", "X">>

CA == <<"C", "A">>

OR == <<"O", "R">>

AK == <<"A", "K">>

CT == <<"C", "T">>

MN == <<"M", "N">>

NY == <<"N", "Y">>

Houston == <<"H", "o", "u", "s", "t", "o", "n">>

LosAngeles == <<"L", "o", "s", " ", "A", "n", "g", "e", "l", "e", "s">>

Nowhere == <<"N", "o", "w", "h", "e", "r", "e">>

\* State codes: every code of the table, a lower-case and a mixed-case spelling,
\* two codes the table does not hold, the empty string and None.
StateInputs ==
  DOMAIN _STATE_DATA
    \cup {<<"t", "x">>, <<"O", "r">>, <<"Z", "Z">>, <<"P", "R">>, << >>, None}

\* The cities asked for in a state: none, each of its own in the table's spelling,
\* one of another state, one unknown, and Houston in upper case.
CityInputs(state_code) ==
  {None, << >>, Houston, upper(Houston), Nowhere}
    \cup (IF state_code # None /\ get_state(state_code) # NoState
          THEN {get_state(state_code).local_rates[i].jurisdiction :
                  i \in DOMAIN get_state(state_code).local_rates}
          ELSE {})

\* The amounts of the scenarios: 200.00, 500.00, 1000.00.
ScenarioAmounts == {20000, 50000, 100000}

\* TLC's integers are 32-bit: the back-out of an inclusive price multiplies the
\* amount by RateScale, so the larger scenario amounts are priced exclusive only.
AmountInputs(pricing) ==
  {Dec(c) : c \in (-MaxAmount .. MaxAmount)
                    \cup (IF pricing = TAX_INCLUSIVE THEN {20000} ELSE ScenarioAmounts)}
    \cup {Infinity, sNaN}

\* Amounts with a third digit after the point, as Decimal(str(...)) accepts them.
SubCentInputs ==
  {Milli(m) : m \in -MaxMills .. MaxMills} \cup {Milli(4000 + m) : m \in 0 .. MaxMills}

Cert == <<"C", "E", "R", "T", "-", "1">>

CategoryInputs ==
  {None, << >>,
   <<"g", "r", "o", "c", "e", "r", "y">>,
   <<" ", "C", "l", "o", "t", "h", "i", "n", "g", "\n">>,
   <<"R", "X">>,
   <<"e", "l", "e", "c", "t", "r", "o", "n", "i", "c", "s">>}

\* The transactions a batch is made of: taxed, exempt, unknown state, and the
\* ones an exception is raised for.
BatchTransactions ==
  {Transaction("T1", Dec(10000), TX, Houston, None, None, "retail", TAX_EXCLUSIVE),
   Transaction("T2", Dec(20000), CA, LosAngeles, None, None, "retail", TAX_INCLUSIVE),
   Transaction("T3", Dec(30000), OR, None, None, None, "retail", TAX_EXCLUSIVE),
   Transaction("T4", Dec(5000), TX, Houston, None, None, "wholesale", TAX_EXCLUSIVE),
   Transaction("T5", Dec(10000), <<"Z", "Z">>, None, None, None, "retail", TAX_EXCLUSIVE),
   Transaction("T6", Infinity, TX, Houston, None, None, "retail", TAX_EXCLUSIVE),
   Transaction("T7", Dec(10000), None, None, None, None, "retail", TAX_EXCLUSIVE),
   Transaction("T8", sNaN, OR, None, None, None, "retail", TAX_EXCLUSIVE),
   Transaction("T9", Infinity, OR, None, None, None, "retail", TAX_EXCLUSIVE)}

RECURSIVE SeqsUpTo(_, _)
SeqsUpTo(S, n) ==
  IF n = 0 THEN {<< >>}
  ELSE SeqsUpTo(S, n - 1) \cup {Append(s, x) : s \in SeqsUpTo(S, n - 1), x \in S}

Batches == SeqsUpTo(BatchTransactions, MaxBatch)

\* The purchase amounts of calculate_use_tax and the amounts of tax already paid.
PurchaseInputs == {Dec(c) : c \in (-MaxPurchase .. MaxPurchase) \cup ScenarioAmounts}

PaidInputs ==
  {Milli(m) : m \in -MaxPaid .. MaxPaid} \cup {Dec(3000), Dec(8250), Dec(100000)}

\* The arguments of check_nexus: every state code, revenue and counts at and
\* around the thresholds and their 80% marks.
RevenueInputs ==
  {Dec(dollars * 100 + cents) :
     dollars \in {0, 80000, 100000, 200000, 250000, 400000, 500000, 600000},
     cents \in {-1, 0, 1}}

CountInputs ==
  {base + d : base \in {0, 8, 10, 80, 100, 160, 200}, d \in -MaxCount .. MaxCount}
    \cap Nat

\* The state codes the rate database is asked for: the codes of StateInputs
\* that are strings, and codes with a blank before or after.
LookupStates ==
  (StateInputs \ {None})
    \cup {<<"T", "x">>, <<"t", "X">>, <<"z", "z">>, <<"T", "X", " ">>, <<" ", "C", "A">>, <<"T">>}

\* The cities it is asked for: each in the table's spelling, in lower and upper
\* case, with a blank before, without its last letter; one unknown, the empty string.
LookupCities ==
  UNION {{city, lower(city), upper(city), <<" ">> \o city, SubSeq(city, 1, Len(city) - 1)} :
           city \in {Houston, LosAngeles, <<"J", "u", "n", "e", "a", "u">>}}
    \cup {Nowhere, << >>}

\* ExemptionCategory
ExemptionCategory ==
  {"grocery", "clothing", "prescription_drug", "medical_device", "manufacturing_equipment",
   "agricultural", "resale", "nonprofit", "government", "digital_goods", "software_saas"}

\* At most MaxFiled periods are marked as filed, over all checkers.
MaxFiled == 2

\* At most MaxCheckers checkers are constructed, and at most MaxRegistered
\* states registered over all of them.
MaxCheckers == 2

MaxRegistered == 2

\* register_state: a code in upper case and one in lower case.
GA == <<"G", "A">>

RegisterStates == {GA, <<"m", "n">>}

\* mark_filed: the state code in two spellings; the first month, the first
\* quarter and the whole of 2024.
FiledStates == {TX, <<"t", "x">>}

FiledPeriods ==
  {<<date(2024, 1, 1), date(2024, 1, 31)>>,
   <<date(2024, 1, 1), date(2024, 3, 31)>>,
   <<date(2024, 1, 1), date(2024, 12, 31)>>}

\* get_filing_deadlines: a state with the default due day, in two spellings,
\* and one with its own.
DeadlineStates == {TX, <<"t", "x">>, CA}

\* The liabilities at and around the thresholds of _determine_frequency.
LiabilityInputs ==
  {Dec(0), Dec(119999), Dec(120000), Milli(4799999), Dec(480000), Dec(1000000)}

\* as_of and date.today(): on and next to the due date of January 2024, after
\* every due date of 2024, and no as_of on 2024-12-01.
AsOfInputs ==
  {<<d, date(2024, 6, 1)>> : d \in {date(2024, 2, 20), date(2024, 2, 21), date(2025, 1, 26)}}
    \cup {<<NoDate, date(2024, 12, 1)>>}

\* year, frequency, estimated_annual_liability, as_of and today: every explicit
\* frequency of the leap year 2024 at every as_of, no frequency with every
\* liability, and the common year 2023.
DeadlineInputs ==
  {<<2024, f, Dec(0), at[1], at[2]>> :
     f \in {MONTHLY, QUARTERLY, SEMI_ANNUAL, ANNUAL}, at \in AsOfInputs}
    \cup {<<2024, NoFrequency, l, date(2025, 1, 26), date(2024, 6, 1)>> : l \in LiabilityInputs}
    \cup {<<2023, f, Dec(240000), NoDate, date(2024, 12, 1)>> :
            f \in {MONTHLY, QUARTERLY, ANNUAL, NoFrequency}}

\* The arguments of check_nexus_all_states.  Revenue: Texas and California at
\* half of their threshold, in both orders; Georgia and Texas at half of theirs;
\* Texas under two spellings of its code, one with no revenue; Texas above its
\* threshold before and after California below; Georgia with no revenue.
NexusRevenues ==
  {<< >>,
   << <<CA, Dec(25000000)>>, <<TX, Dec(25000000)>> >>,
   << <<TX, Dec(25000000)>>, <<CA, Dec(25000000)>> >>,
   << <<GA, Dec(5000000)>>, <<TX, Dec(25000000)>> >>,
   << <<TX, Dec(0)>>, <<<<"t", "x">>, Dec(10000)>> >>,
   << <<TX, Dec(60000000)>>, <<CA, Dec(5000000)>> >>,
   << <<CA, Dec(5000000)>>, <<TX, Dec(60000000)>> >>,
   << <<GA, Dec(0)>> >>}

\* Transaction counts: none, Georgia with none and with 100, Texas and California.
NexusTransactions ==
  {<< >>, << <<GA, 0>> >>, << <<GA, 100>> >>, << <<TX, 100>>, <<CA, 50>> >>}

\* physical_states: None, Texas, and Georgia and California.
PhysicalInputs == {<< >>, <<{TX}>>, <<{GA, CA}>>}

\* generate_alerts: sales in Georgia under two spellings of its code and in
\* Minnesota, at 80% of the revenue threshold of both and at it; transaction
\* counts for Georgia, at 80% of its threshold and at it, or for Texas, which
\* has no transaction threshold.
Dicts(keys, values) == UNION {[K -> values] : K \in SUBSET keys}

AlertRevenues == Dicts({GA, <<"g", "a">>, MN}, {Dec(8000000), Dec(10000000)})

AlertTransactions == Dicts({GA}, {160, 200}) \cup {TX :> 200}

\* registered_states: None, the empty list, one code in lower case, two codes.
RegisteredInputs == {<< >>, << << >> >>, << << <<"g", "a">> >> >>, << <<MN, TX>> >>}

\* as_of and date.today(): in the middle of 2024; no as_of; the leap day, the
\* last day of 2024 and the first of 2025; the day after the annual return of
\* 2024 is due, and a year after it.
AlertDates ==
  {<<date(2024, 6, 15), date(2026, 1, 5)>>, <<NoDate, date(2025, 2, 1)>>}
    \cup {<<d, date(2024, 6, 1)>> :
            d \in {date(2024, 2, 29), date(2024, 12, 31), date(2025, 1, 1),
                   date(2025, 1, 21), date(2026, 1, 21)}}

\* get_overdue_filings: the year of the filed periods (the default of the
\* parameter) and the year before.
OverdueYears == {2023, 2024}

\* state_revenues, state_transactions, registered_states, as_of and today:
\* every revenue and count with every list on one day, and sales with nexus in
\* Georgia with every list on every day.
AlertInputs ==
  {<<revenues, counts, given, date(2024, 6, 15), date(2026, 1, 5)>> :
     revenues \in AlertRevenues, counts \in AlertTransactions, given \in RegisteredInputs}
    \cup {<<GA :> Dec(10000000), << >>, given, at[1], at[2]>> :
            given \in RegisteredInputs, at \in AlertDates}

\* analyze_transaction: sales taxed in Texas under two spellings of its code
\* and in California, a sale in Oregon, which has no sales tax, an exempt sale
\* and a sale in an unknown state.
RefundSales ==
  {Transaction("R1", Dec(100000), TX, Houston, None, None, "retail", TAX_EXCLUSIVE),
   Transaction("R2", Dec(100000), <<"t", "x">>, Houston, None, None, "retail", TAX_EXCLUSIVE),
   Transaction("R3", Dec(10000), CA, LosAngeles, None, None, "retail", TAX_EXCLUSIVE),
   Transaction("R4", Dec(50000), OR, None, None, None, "retail", TAX_EXCLUSIVE),
   Transaction("R5", Dec(10000), TX, Houston, <<"g", "r", "o", "c", "e", "r", "y">>, None,
               "retail", TAX_EXCLUSIVE),
   Transaction("R6", Dec(10000), <<"Z", "Z">>, None, None, None, "retail", TAX_EXCLUSIVE)}

\* Transaction dates: a leap day, and the days three and four years before
\* 2024-06-15 with the days before them.
RefundDates ==
  {date(2024, 2, 29), date(2023, 3, 1), date(2021, 6, 15), date(2021, 6, 14),
   date(2020, 6, 15), date(2020, 6, 14)}

\* tax_paid: nothing, less than the 82.50 owed on the sale of 1000.00, the tax
\* owed, half a cent more and just less than that, and more.
TaxPaidInputs == {Dec(0), Dec(5000), Dec(8250), Milli(82504), Milli(82505), Dec(10000)}

\* as_of and date.today()
RefundAsOf ==
  {<<date(2024, 6, 15), date(2026, 1, 5)>>, <<date(2024, 2, 29), date(2026, 1, 5)>>,
   <<NoDate, date(2025, 6, 15)>>}

\* At most MaxPairs pairs of a transaction and the tax paid are analysed in
\* one batch.
MaxPairs == 3

Sale(transaction_id) == CHOOSE sale \in RefundSales : sale.transaction_id = transaction_id

\* analyze_batch as of 2024-06-15: overpayments of 17.50 in Texas, eligible,
\* one day too old, and too old for the three years the lower-case code gets;
\* of 0.10 and 17.50 in Oregon; of 8.25 on an exempt sale in Texas; an exact
\* payment; and an overpayment on a leap day.
RefundPairs ==
  {<<dated(Sale("R1"), date(2023, 3, 1)), Dec(10000)>>,
   <<dated(Sale("R1"), date(2020, 6, 14)), Dec(10000)>>,
   <<dated(Sale("R2"), date(2020, 6, 15)), Dec(10000)>>,
   <<dated(Sale("R4"), date(2023, 3, 1)), Dec(10)>>,
   <<dated(Sale("R4"), date(2021, 6, 15)), Dec(1750)>>,
   <<dated(Sale("R5"), date(2021, 6, 15)), Dec(825)>>,
   <<dated(Sale("R1"), date(2023, 3, 1)), Dec(8250)>>,
   <<dated(Sale("R3"), date(2024, 2, 29)), Dec(10000)>>}

RefundBatches == SeqsUpTo(RefundPairs, MaxPairs)

RefundBatchAsOf == {<<date(2024, 6, 15), date(2026, 1, 5)>>, <<NoDate, date(2024, 6, 15)>>}

\* The lists list({...}) can make of the reasons of each state with an
\* eligible record.
ReasonLists(records) ==
  LET states == {eligible_of(records)[k].state : k \in DOMAIN eligible_of(records)}
      reasons(state) == reasons_of(SelectSeq(eligible_of(records), LAMBDA r : r.state = state))
  IN  {list_of \in [states -> UNION {IterationOrders(reasons(state)) : state \in states}] :
         \A state \in states : list_of[state] \in IterationOrders(reasons(state))}

-----------------------------------------------------------------------------
(* The operations *)

\* No checker is constructed and none is called.
NoCall == [op |-> "none"]

NoCheckers ==
  heap = << >> /\ checkers = << >> /\ call = NoCall /\ ret = NotCalled /\ history = {}

\* No operation of the calculator is called.
NoCalculation ==
  /\ pc = "idle"
  /\ txn = NotCalled /\ result = NotCalled
  /\ transactions = NotCalled /\ batch = NotCalled
  /\ purchase = NotCalled /\ use_tax = NotCalled
  /\ nexus_args = NotCalled /\ nexus = NotCalled

\* Every way of claiming an exemption, in every state, for a few amounts.
ExemptionCases ==
  \E amount \in {Dec(10000), Dec(-995), sNaN},
     state \in StateInputs,
     city \in {None, Houston},
     category \in CategoryInputs,
     cert \in {None, << >>, Cert},
     customer \in {"retail", "wholesale", "exempt", "Wholesale"},
     pricing \in {TAX_EXCLUSIVE, TAX_INCLUSIVE} :
    txn = Transaction("TEST-001", amount, state, city, category, cert, customer, pricing)

\* Every amount, in every state and city, for a retail sale with no exemption.
AmountCases ==
  \E state \in StateInputs, pricing \in {TAX_EXCLUSIVE, TAX_INCLUSIVE} :
    \E city \in CityInputs(state), amount \in AmountInputs(pricing) :
      txn = Transaction("TEST-001", amount, state, city, None, None, "retail", pricing)

\* Amounts that are not whole cents, where the rates differ.
SubCentCases ==
  \E state \in {TX, CA, NY, AK, OR, <<"Z", "Z">>},
     city \in {None, Houston, LosAngeles},
     pricing \in {TAX_EXCLUSIVE, TAX_INCLUSIVE},
     amount \in SubCentInputs :
    txn = Transaction("TEST-001", amount, state, city, None, None, "retail", pricing)

InitCalculate ==
  /\ NoCheckers
  /\ pc = "calculate"
  /\ ExemptionCases \/ AmountCases \/ SubCentCases
  /\ result = NotCalled
  /\ transactions = NotCalled /\ batch = NotCalled
  /\ purchase = NotCalled /\ use_tax = NotCalled
  /\ nexus_args = NotCalled /\ nexus = NotCalled

InitBatch ==
  /\ NoCheckers
  /\ pc = "calculate_batch"
  /\ transactions \in Batches
  /\ batch = NotCalled
  /\ txn = NotCalled /\ result = NotCalled
  /\ purchase = NotCalled /\ use_tax = NotCalled
  /\ nexus_args = NotCalled /\ nexus = NotCalled

\* calc.calculate_use_tax(Decimal("1000.00"), "TX", "Houston",
\*                        tax_already_paid=Decimal("30.00")), and the like
UseTaxScenario ==
  \E amount \in ScenarioAmounts, paid \in {Dec(3000), Dec(8250)} :
    purchase = [purchase_amount   |-> Dec(amount),
                destination_state |-> TX,
                destination_city  |-> Houston,
                tax_already_paid  |-> paid]

\* Every purchase amount and tax already paid, where the rates differ.
UseTaxCases ==
  \E amount \in PurchaseInputs,
     state \in {TX, <<"t", "x">>, CA, AK, OR, <<"Z", "Z">>},
     city \in {None, Houston, Nowhere},
     paid \in PaidInputs :
    purchase = [purchase_amount   |-> amount,
                destination_state |-> state,
                destination_city  |-> city,
                tax_already_paid  |-> paid]

InitUseTax ==
  /\ NoCheckers
  /\ pc = "calculate_use_tax"
  /\ UseTaxScenario \/ UseTaxCases
  /\ use_tax = NotCalled
  /\ txn = NotCalled /\ result = NotCalled
  /\ transactions = NotCalled /\ batch = NotCalled
  /\ nexus_args = NotCalled /\ nexus = NotCalled

InitNexus ==
  /\ NoCheckers
  /\ pc = "check_nexus"
  /\ \E state \in StateInputs \ {None},
        revenue \in RevenueInputs,
        count \in CountInputs,
        physical \in BOOLEAN :
       nexus_args = [state_code        |-> state,
                     revenue           |-> revenue,
                     transaction_count |-> count,
                     physical_presence |-> physical]
  /\ nexus = NotCalled
  /\ txn = NotCalled /\ result = NotCalled
  /\ transactions = NotCalled /\ batch = NotCalled
  /\ purchase = NotCalled /\ use_tax = NotCalled

\* checker = ComplianceChecker(), twice: two instances side by side.
InitCheckers ==
  /\ NoCalculation
  /\ LET first == ComplianceChecker__init__(<< >>)
     IN  LET second == ComplianceChecker__init__(first.heap)
         IN  heap = second.heap /\ checkers = <<first.self, second.self>>
  /\ call = NoCall
  /\ ret = NotCalled
  /\ history = {}

\* checker = ComplianceChecker(): one instance, the others are constructed
\* while it is in use.
InitChecker ==
  /\ NoCalculation
  /\ LET first == ComplianceChecker__init__(<< >>)
     IN  heap = first.heap /\ checkers = <<first.self>>
  /\ call = NoCall
  /\ ret = NotCalled
  /\ history = {}

\* analyzer.analyze_transaction(txn, tax_paid, as_of) is about to be called.
InitAnalyzeTransaction ==
  /\ pc = "analyze_transaction"
  /\ \E sale \in RefundSales, on \in RefundDates, paid \in TaxPaidInputs, at \in RefundAsOf :
       call = [op |-> "analyze_transaction", txn |-> dated(sale, on), tax_paid |-> paid,
               as_of |-> at[1], today |-> at[2]]
  /\ ret = NotCalled
  /\ heap = << >> /\ checkers = << >> /\ history = {}
  /\ txn = NotCalled /\ result = NotCalled
  /\ transactions = NotCalled /\ batch = NotCalled
  /\ purchase = NotCalled /\ use_tax = NotCalled
  /\ nexus_args = NotCalled /\ nexus = NotCalled

\* analyzer.analyze_batch(transactions, as_of) is about to be called.
InitAnalyzeBatch ==
  /\ pc = "analyze_batch"
  /\ \E pairs \in RefundBatches, at \in RefundBatchAsOf :
       call = [op |-> "analyze_batch", transactions |-> pairs,
               as_of |-> at[1], today |-> at[2]]
  /\ ret = NotCalled
  /\ heap = << >> /\ checkers = << >> /\ history = {}
  /\ txn = NotCalled /\ result = NotCalled
  /\ transactions = NotCalled /\ batch = NotCalled
  /\ purchase = NotCalled /\ use_tax = NotCalled
  /\ nexus_args = NotCalled /\ nexus = NotCalled

\* One of the lookups of the rate database is about to be called.
InitRates ==
  /\ \E state \in LookupStates :
       \/ pc = "get_state" /\ call = [op |-> "get_state", state_code |-> state]
       \/ pc = "get_base_rate" /\ call = [op |-> "get_base_rate", state_code |-> state]
       \/ \E city \in LookupCities \cup {None} :
            /\ pc = "get_combined_rate"
            /\ call = [op |-> "get_combined_rate", state_code |-> state, city |-> city]
       \/ \E city \in LookupCities :
            /\ pc = "get_local_rate"
            /\ call = [op |-> "get_local_rate", state_code |-> state, city |-> city]
       \/ \E category \in ExemptionCategory :
            /\ pc = "is_exempt"
            /\ call = [op |-> "is_exempt", state_code |-> state, category |-> category]
  /\ ret = NotCalled
  /\ heap = << >> /\ checkers = << >> /\ history = {}
  /\ txn = NotCalled /\ result = NotCalled
  /\ transactions = NotCalled /\ batch = NotCalled
  /\ purchase = NotCalled /\ use_tax = NotCalled
  /\ nexus_args = NotCalled /\ nexus = NotCalled

Init ==
  \/ InitCalculate \/ InitBatch \/ InitUseTax \/ InitNexus
  \/ InitCheckers \/ InitChecker
  \/ InitAnalyzeTransaction \/ InitAnalyzeBatch
  \/ InitRates

\* result = calc.calculate(txn)
Calculate ==
  /\ pc = "calculate"
  /\ result' = calculate(txn)
  /\ pc' = "return"
  /\ UNCHANGED <<txn, transactions, batch, purchase, use_tax, nexus_args, nexus>>
  /\ UNCHANGED <<heap, checkers, call, ret, history>>

\* batch = calc.calculate_batch(transactions)
CalculateBatch ==
  /\ pc = "calculate_batch"
  /\ batch' = calculate_batch(transactions)
  /\ pc' = "return"
  /\ UNCHANGED <<txn, result, transactions, purchase, use_tax, nexus_args, nexus>>
  /\ UNCHANGED <<heap, checkers, call, ret, history>>

\* use_tax = calc.calculate_use_tax(**purchase)
CalculateUseTax ==
  /\ pc = "calculate_use_tax"
  /\ use_tax' = calculate_use_tax(purchase.purchase_amount, purchase.destination_state,
                                  purchase.destination_city, purchase.tax_already_paid)
  /\ pc' = "return"
  /\ UNCHANGED <<txn, result, transactions, batch, purchase, nexus_args, nexus>>
  /\ UNCHANGED <<heap, checkers, call, ret, history>>

\* nexus = checker.check_nexus(**nexus_args)
CheckNexus ==
  /\ pc = "check_nexus"
  /\ nexus' = check_nexus(nexus_args.state_code, nexus_args.revenue,
                          nexus_args.transaction_count, nexus_args.physical_presence)
  /\ pc' = "return"
  /\ UNCHANGED <<txn, result, transactions, batch, purchase, use_tax, nexus_args>>
  /\ UNCHANGED <<heap, checkers, call, ret, history>>

\* The period keys filed on a checker, each with its state code.
FiledKeys(h, self) ==
  UNION {{<<code, key>> : key \in h[self._filed_periods][code]} :
           code \in DOMAIN h[self._filed_periods]}

\* The number of periods filed, over all checkers.
FiledCount ==
  Cardinality(UNION {{<<i, k>> : k \in FiledKeys(heap, checkers[i])} : i \in DOMAIN checkers})

\* The number of states registered, over all checkers.
RegisteredCount ==
  Cardinality(UNION {{<<i, s>> : s \in heap[checkers[i]._registered_states]} :
                       i \in DOMAIN checkers})

\* The caller of a checker constructs checkers and makes its mutating calls
\* one after the other (pc = "idle" between two of them), history keeping the
\* calls made, and then one query, whose arguments and result it keeps in call
\* and ret (pc = "return"): a query changes no object, so the calls after it
\* would start from the state before it.

\* checkers.append(ComplianceChecker())
Construct ==
  /\ pc = "idle"
  /\ Len(checkers) < MaxCheckers
  /\ LET new == ComplianceChecker__init__(heap)
     IN  heap' = new.heap /\ checkers' = Append(checkers, new.self)
  /\ UNCHANGED <<call, ret, history>>
  /\ UNCHANGED <<pc, txn, result, transactions, batch, purchase, use_tax, nexus_args, nexus>>

\* checkers[i].register_state(state_code)
RegisterState ==
  /\ pc = "idle"
  /\ RegisteredCount < MaxRegistered
  /\ \E i \in DOMAIN checkers, state \in RegisterStates :
       /\ heap' = register_state(heap, checkers[i], state)
       /\ history' = history \cup {[op |-> "register_state", self |-> i, state_code |-> state]}
  /\ UNCHANGED <<call, ret>>
  /\ UNCHANGED checkers
  /\ UNCHANGED <<pc, txn, result, transactions, batch, purchase, use_tax, nexus_args, nexus>>

\* checkers[i].mark_filed(state_code, period_start, period_end)
MarkFiled ==
  /\ pc = "idle"
  /\ FiledCount < MaxFiled
  /\ \E i \in DOMAIN checkers, state \in FiledStates, period \in FiledPeriods :
       /\ heap' = mark_filed(heap, checkers[i], state, period[1], period[2])
       /\ history' = history \cup {[op |-> "mark_filed", self |-> i, state_code |-> state,
                                    period_start |-> period[1], period_end |-> period[2]]}
  /\ UNCHANGED <<call, ret>>
  /\ UNCHANGED checkers
  /\ UNCHANGED <<pc, txn, result, transactions, batch, purchase, use_tax, nexus_args, nexus>>

\* ret = checkers[i].get_filing_deadlines(state_code, year, frequency,
\*                                        estimated_annual_liability, as_of)
GetFilingDeadlines ==
  /\ pc = "idle"
  /\ pc' = "return"
  /\ \E i \in DOMAIN checkers, state \in DeadlineStates, in \in DeadlineInputs :
       /\ call' = [op |-> "get_filing_deadlines", self |-> i, state_code |-> state,
                   year |-> in[1], frequency |-> in[2],
                   estimated_annual_liability |-> in[3],
                   as_of |-> in[4], today |-> in[5]]
       /\ ret' = Ok(get_filing_deadlines(heap, checkers[i], state, in[1], in[2], in[3],
                                         in[4], in[5]))
  /\ UNCHANGED <<heap, checkers, history>>
  /\ UNCHANGED <<txn, result, transactions, batch, purchase, use_tax, nexus_args, nexus>>

\* ret = checkers[i].check_nexus_all_states(state_revenues, state_transactions,
\*                                          physical_states)
CheckNexusAllStates ==
  /\ pc = "idle"
  /\ pc' = "return"
  /\ \E i \in DOMAIN checkers, revenues \in NexusRevenues, counts \in NexusTransactions,
        physical \in PhysicalInputs :
       /\ call' = [op |-> "check_nexus_all_states", self |-> i, state_revenues |-> revenues,
                   state_transactions |-> counts, physical_states |-> physical]
       /\ \E all_states \in IterationOrders(dict_keys(revenues) \cup dict_keys(counts)) :
            ret' = Ok(check_nexus_all_states(revenues, counts, physical, all_states))
  /\ UNCHANGED <<heap, checkers, history>>
  /\ UNCHANGED <<txn, result, transactions, batch, purchase, use_tax, nexus_args, nexus>>

\* ret = checkers[i].get_overdue_filings(registered_states, year, as_of)
GetOverdueFilings ==
  /\ pc = "idle"
  /\ pc' = "return"
  /\ \E i \in DOMAIN checkers, given \in RegisteredInputs, year \in OverdueYears,
        at \in AsOfInputs :
       /\ call' = [op |-> "get_overdue_filings", self |-> i, registered_states |-> given,
                   year |-> year, as_of |-> at[1], today |-> at[2]]
       /\ \E states_order \in IterationOrders(heap[checkers[i]._registered_states]) :
            ret' = Ok(get_overdue_filings(heap, checkers[i], given, year, at[1], at[2],
                                          states_order))
  /\ UNCHANGED <<heap, checkers, history>>
  /\ UNCHANGED <<txn, result, transactions, batch, purchase, use_tax, nexus_args, nexus>>

\* ret = checkers[i].generate_alerts(state_revenues, state_transactions,
\*                                   registered_states, as_of)
GenerateAlerts ==
  /\ pc = "idle"
  /\ pc' = "return"
  /\ \E i \in DOMAIN checkers, in \in AlertInputs :
       /\ call' = [op |-> "generate_alerts", self |-> i, state_revenues |-> in[1],
                   state_transactions |-> in[2], registered_states |-> in[3],
                   as_of |-> in[4], today |-> in[5]]
       /\ \E states \in IterationOrders(DOMAIN in[1] \cup DOMAIN in[2]),
             registered \in IterationOrders(registered_of(heap, checkers[i], in[3])) :
            ret' = Ok(generate_alerts(heap, checkers[i], in[1], in[2], in[3],
                                      in[4], in[5], states, registered))
  /\ UNCHANGED <<heap, checkers, history>>
  /\ UNCHANGED <<txn, result, transactions, batch, purchase, use_tax, nexus_args, nexus>>

\* ret = analyzer.analyze_transaction(txn, tax_paid, as_of)
AnalyzeTransaction ==
  /\ pc = "analyze_transaction"
  /\ ret' = analyze_transaction(call.txn, call.tax_paid, call.as_of, call.today)
  /\ pc' = "return"
  /\ UNCHANGED <<call, heap, checkers, history>>
  /\ UNCHANGED <<txn, result, transactions, batch, purchase, use_tax, nexus_args, nexus>>

\* summary = analyzer.analyze_batch(transactions, as_of)
AnalyzeBatch ==
  /\ pc = "analyze_batch"
  /\ ret' = analyze_batch(call.transactions, call.as_of, call.today)
  /\ pc' = IF Raised(ret') THEN "return" ELSE "generate_refund_claims"
  /\ UNCHANGED <<call, heap, checkers, history>>
  /\ UNCHANGED <<txn, result, transactions, batch, purchase, use_tax, nexus_args, nexus>>

\* claims = analyzer.generate_refund_claims(summary)
GenerateRefundClaims ==
  /\ pc = "generate_refund_claims"
  /\ call' = [op |-> "generate_refund_claims", summary |-> ret]
  /\ \E list_of \in ReasonLists(ret.records) :
       ret' = Ok(generate_refund_claims(ret, list_of))
  /\ pc' = "return"
  /\ UNCHANGED <<heap, checkers, history>>
  /\ UNCHANGED <<txn, result, transactions, batch, purchase, use_tax, nexus_args, nexus>>

\* ret = db.get_state(state_code)
GetState ==
  /\ pc = "get_state"
  /\ ret' = get_state(call.state_code)
  /\ pc' = "return"
  /\ UNCHANGED <<call, heap, checkers, history>>
  /\ UNCHANGED <<txn, result, transactions, batch, purchase, use_tax, nexus_args, nexus>>

\* ret = db.get_base_rate(state_code)
GetBaseRate ==
  /\ pc = "get_base_rate"
  /\ ret' = get_base_rate(call.state_code)
  /\ pc' = "return"
  /\ UNCHANGED <<call, heap, checkers, history>>
  /\ UNCHANGED <<txn, result, transactions, batch, purchase, use_tax, nexus_args, nexus>>

\* ret = db.get_combined_rate(state_code, city)
GetCombinedRate ==
  /\ pc = "get_combined_rate"
  /\ ret' = get_combined_rate(call.state_code, call.city)
  /\ pc' = "return"
  /\ UNCHANGED <<call, heap, checkers, history>>
  /\ UNCHANGED <<txn, result, transactions, batch, purchase, use_tax, nexus_args, nexus>>

\* ret = db.get_local_rate(state_code, city)
GetLocalRate ==
  /\ pc = "get_local_rate"
  /\ ret' = get_local_rate(call.state_code, call.city)
  /\ pc' = "return"
  /\ UNCHANGED <<call, heap, checkers, history>>
  /\ UNCHANGED <<txn, result, transactions, batch, purchase, use_tax, nexus_args, nexus>>

\* ret = db.is_exempt(state_code, category)
IsExempt ==
  /\ pc = "is_exempt"
  /\ ret' = is_exempt(call.state_code, call.category)
  /\ pc' = "return"
  /\ UNCHANGED <<call, heap, checkers, history>>
  /\ UNCHANGED <<txn, result, transactions, batch, purchase, use_tax, nexus_args, nexus>>

Next ==
  \/ GetState \/ GetBaseRate \/ GetCombinedRate \/ GetLocalRate \/ IsExempt
  \/ Calculate \/ CalculateBatch \/ CalculateUseTax \/ CheckNexus
  \/ Construct \/ RegisterState \/ MarkFiled \/ GetFilingDeadlines \/ GenerateAlerts
  \/ CheckNexusAllStates \/ GetOverdueFilings
  \/ AnalyzeTransaction \/ AnalyzeBatch \/ GenerateRefundClaims

Spec == Init /\ [][Next]_vars

SpecCalculate == InitCalculate /\ [][Calculate]_vars

\* calculate alone and inside calculate_batch
SpecCalculator == (InitCalculate \/ InitBatch) /\ [][Calculate \/ CalculateBatch]_vars

SpecBatch == InitBatch /\ [][CalculateBatch]_vars

SpecUseTax == InitUseTax /\ [][CalculateUseTax]_vars

SpecNexus == InitNexus /\ [][CheckNexus]_vars

-----------------------------------------------------------------------------
(* Properties *)

\* The call has returned a value (it has been made and has not raised).
Returned(v) == v # NotCalled /\ ~Raised(v)

\* x is num/den rounded to the nearest whole number, a tie away from zero.
IsHalfUp(x, num, den) ==
  /\ 2 * Abs(x * den - num) <= den
  /\ 2 * Abs(x * den - num) = den => Abs(x) * den > Abs(num)

\* tax_amount == state_tax + local_tax
TaxIsStatePlusLocal(r) ==
  /\ IsFinite(r.tax_amount) /\ IsFinite(r.state_tax) /\ IsFinite(r.local_tax)
  /\ Mills(r.tax_amount) = Mills(r.state_tax) + Mills(r.local_tax)

\* state, local and total tax are zero
ZeroTaxes(r) == r.state_tax = Dec(0) /\ r.local_tax = Dec(0) /\ r.tax_amount = Dec(0)

\* calculate has returned the result of its taxed branch: the state is in the
\* table and the result is not exempt.
TaxedResult ==
  /\ Returned(result)
  /\ get_state(txn.state) # NoState
  /\ ~result.is_exempt

\* The state of the transaction is in the table and levies a tax.
LeviesTax ==
  /\ txn # NotCalled /\ txn.state # None
  /\ get_state(txn.state) # NoState
  /\ ~(get_state(txn.state).base_rate = 0 /\ ~get_state(txn.state).has_local_taxes)

\* C1: the result of calculate, for every transaction, and every result in the
\* output of calculate_batch, has tax_amount equal to state_tax + local_tax.
C1_TaxIsStatePlusLocal ==
  /\ Returned(result) => TaxIsStatePlusLocal(result)
  /\ Returned(batch) =>
       \A i \in DOMAIN batch.results : TaxIsStatePlusLocal(batch.results[i])

\* calculate has taxed a tax-inclusive amount with a state and a local part.
C1_Witness ==
  /\ Returned(result)
  /\ txn.pricing_model = TAX_INCLUSIVE
  /\ result.state_tax.coeff > 0 /\ result.local_tax.coeff > 0

\* C2: every result of calculate_use_tax has tax_amount equal to
\* state_tax + local_tax, also when a credit is applied.
C2_UseTaxIsStatePlusLocal ==
  Returned(use_tax) => TaxIsStatePlusLocal(use_tax)

TaxableAmountResolved ==
  IF txn.pricing_model = TAX_INCLUSIVE
  THEN /\ result.taxable_amount.exp = 2
       /\ IsHalfUp(result.taxable_amount.coeff, txn.amount.coeff * RateScale,
                   (RateScale + result.effective_rate) * PerCent(txn.amount))
  ELSE result.taxable_amount = txn.amount

\* taxable_amount + tax_amount - amount of a taxed result, in thousandths
BackOutError ==
  Mills(result.taxable_amount) + Mills(result.tax_amount) - Mills(txn.amount)

\* C4 as stated: for every taxable tax-inclusive transaction the taxable amount
\* is amount / (1 + state rate + local rate) rounded to the cent and
\* taxable_amount + tax_amount is within one cent of the amount; for a
\* tax-exclusive one the taxable amount is the amount.
C4_WithinOneCent ==
  TaxedResult =>
    /\ TaxableAmountResolved
    /\ txn.pricing_model = TAX_INCLUSIVE => Abs(BackOutError) <= 10

\* C4 amended: the taxable amount is resolved as stated; taxable_amount +
\* tax_amount is within one cent of a tax-inclusive amount that is a whole
\* number of cents, and less than two cents from any other.
C4_WithinOneCentOfWholeCents ==
  TaxedResult =>
    /\ TaxableAmountResolved
    /\ txn.pricing_model = TAX_INCLUSIVE =>
         IF txn.amount.exp = 2 THEN Abs(BackOutError) <= 10
         ELSE Abs(BackOutError) < 20

\* A tax-inclusive amount in whole cents that the back-out misses by a cent.
C4_Witness ==
  /\ TaxedResult
  /\ txn.pricing_model = TAX_INCLUSIVE
  /\ txn.amount.exp = 2
  /\ Abs(BackOutError) = 10

\* The exemption class of the transaction's category is one its state exempts.
CategoryExempted ==
  /\ Truthy(txn.item_category)
  /\ strip(lower(txn.item_category)) \in DOMAIN _CATEGORY_MAP
  /\ \E i \in DOMAIN get_state(txn.state).exemptions :
       get_state(txn.state).exemptions[i] =
         _CATEGORY_MAP[strip(lower(txn.item_category))]

\* C5: where a tax is levied the first matching rule alone decides: a wholesale
\* or exempt customer is exempt for the customer type, whatever certificate or
\* category; else a non-empty certificate exempts, whatever the category; else
\* the transaction is exempt iff the class of its trimmed, lower-cased category
\* is one the state exempts; else it is taxable and is_exempt is false.  An
\* exempt result has zero state, local and total tax.
C5_FirstMatchingRule ==
  /\ (pc = "return" /\ LeviesTax) =>
       IF txn.customer_type \in {"wholesale", "exempt"}
       THEN /\ Returned(result) /\ result.is_exempt
            /\ result.exemption_reason = <<"Customer type: ", txn.customer_type>>
       ELSE IF Truthy(txn.exemption_certificate)
       THEN /\ Returned(result) /\ result.is_exempt
            /\ result.exemption_reason = <<"Exemption cert: ", txn.exemption_certificate>>
       ELSE IF CategoryExempted
       THEN /\ Returned(result) /\ result.is_exempt
            /\ result.exemption_reason[1] = txn.state
       ELSE Returned(result) => ~result.is_exempt /\ result.exemption_reason = << >>
  /\ (pc = "return" /\ LeviesTax /\ txn.customer_type = "retail"
      /\ ~Truthy(txn.exemption_certificate) /\ IsFinite(txn.amount)
      /\ txn.item_category = <<" ", "C", "l", "o", "t", "h", "i", "n", "g", "\n">>) =>
       result.is_exempt = (upper(txn.state) \in {CT, MN, NY, <<"M", "D">>, <<"M", "A">>,
                                                 <<"N", "J">>, <<"P", "A">>, <<"R", "I">>,
                                                 <<"V", "T">>})
  /\ (Returned(result) /\ result.is_exempt) => ZeroTaxes(result)

\* A wholesale customer with a certificate and an exempted category, where a
\* tax is levied.
C5_Witness ==
  /\ pc = "return" /\ LeviesTax
  /\ txn.customer_type = "wholesale"
  /\ Truthy(txn.exemption_certificate)
  /\ CategoryExempted
  /\ Returned(result) /\ result.is_exempt

\* C6: in a state with a zero base rate and no local taxes calculate returns a
\* total tax of 0 and is_exempt true with the reason "<name> has no sales tax",
\* whatever the customer type, certificate, category, city or pricing model.
C6_NoTaxState ==
  (pc = "return" /\ txn # NotCalled /\ txn.state # None
   /\ get_state(txn.state) # NoState
   /\ get_state(txn.state).base_rate = 0
   /\ ~get_state(txn.state).has_local_taxes) =>
    /\ Returned(result)
    /\ ZeroTaxes(result)
    /\ result.is_exempt
    /\ result.exemption_reason = <<get_state(txn.state).state_name, " has no sales tax">>
    /\ result.effective_rate = 0

\* A wholesale customer with a certificate in Oregon.
C6_Witness ==
  /\ pc = "return" /\ txn # NotCalled
  /\ txn.state = OR
  /\ txn.customer_type = "wholesale"
  /\ Truthy(txn.exemption_certificate)
  /\ Truthy(txn.item_category)
  /\ Returned(result)
  /\ result.exemption_reason = <<"Oregon", " has no sales tax">>

\* C7: for a state code the table does not hold calculate does not raise: the
\* result has zero state, local and total tax, is_exempt false, the rate 0 and
\* a warning naming the code, whatever the customer type, certificate or
\* category.
C7_UnknownState ==
  (pc = "return" /\ txn # NotCalled /\ txn.state # None
   /\ upper(txn.state) \notin DOMAIN _STATE_DATA) =>
    /\ Returned(result)
    /\ ZeroTaxes(result)
    /\ ~result.is_exempt
    /\ result.exemption_reason = << >>
    /\ result.effective_rate = 0
    /\ result.warnings = << <<"Unknown state code: ", txn.state>> >>

\* A wholesale customer with a certificate and a grocery category in ZZ.
C7_Witness ==
  /\ pc = "return" /\ txn # NotCalled
  /\ txn.state = <<"Z", "Z">>
  /\ txn.customer_type = "wholesale"
  /\ Truthy(txn.exemption_certificate)
  /\ txn.item_category = <<"g", "r", "o", "c", "e", "r", "y">>
  /\ Returned(result)

RECURSIVE SuccessfulResults(_, _)
\* The results of the transactions from position i on that calculate returns
\* a result for, in input order.
SuccessfulResults(ts, i) ==
  IF i > Len(ts) THEN << >>
  ELSE IF Raised(calculate(ts[i])) THEN SuccessfulResults(ts, i + 1)
  ELSE <<calculate(ts[i])>> \o SuccessfulResults(ts, i + 1)

\* C8: calculate_batch does not abort on one transaction: an error raised for
\* a transaction is recorded in errors with the transaction's id and the others
\* are processed; results holds the successful results in input order, and
\* len(results) + len(errors) == transaction_count == the number of inputs.
C8_ResultsPlusErrorsIsCount ==
  (pc = "return" /\ batch # NotCalled) =>
    /\ ~Raised(batch)
    /\ batch.transaction_count = Len(transactions)
    /\ Len(batch.results) + Len(batch.errors) = batch.transaction_count
    /\ \A i \in DOMAIN batch.errors :
         \E j \in DOMAIN transactions :
           batch.errors[i][2] = transactions[j].transaction_id
    /\ batch.results = SuccessfulResults(transactions, 1)

\* The tax calculate gives for a retail tax-exclusive purchase of the amount
\* in the destination.
Owed ==
  calculate(Transaction("use-tax-calc", purchase.purchase_amount,
                        purchase.destination_state, purchase.destination_city,
                        None, None, "retail", TAX_EXCLUSIVE)).tax_amount

\* min(tax_already_paid, owed), in thousandths
CreditMills(owed) == Min(Mills(purchase.tax_already_paid), Mills(owed))

\* The credit warning is attached iff the credit is greater than 0; 1000.00 to
\* TX/Houston with 30.00 paid gives 52.50.
CreditWarningAndScenario(owed) ==
  /\ (use_tax.warnings # << >>) = (CreditMills(owed) > 0)
  /\ (purchase.purchase_amount = Dec(100000) /\ upper(purchase.destination_state) = TX
      /\ purchase.destination_city = Houston
      /\ purchase.tax_already_paid = Dec(3000)) => use_tax.tax_amount = Dec(5250)

NexusTypes == {nexus.nexus_types[i] : i \in DOMAIN nexus.nexus_types}

\* C10: a state of the fixed no-sales-tax set has has_nexus false and no nexus
\* types, whatever the presence and revenue; a state with no threshold entry
\* has nexus iff there is physical presence; otherwise ECONOMIC is a nexus type
\* iff revenue >= the revenue threshold or a transaction threshold is defined
\* and transaction_count >= it, PHYSICAL iff there is physical presence, and
\* has_nexus iff there is a nexus type.
C10_NexusDetermination ==
  Returned(nexus) =>
    LET code == upper(nexus_args.state_code)
    IN  /\ nexus.has_nexus = (NexusTypes # {})
        /\ IF code \in {OR, <<"D", "E">>, <<"M", "T">>, <<"N", "H">>}
           THEN ~nexus.has_nexus /\ nexus.nexus_types = << >>
           ELSE IF code \notin DOMAIN _NEXUS_THRESHOLDS
           THEN /\ nexus.has_nexus = nexus_args.physical_presence
                /\ ECONOMIC \notin NexusTypes
           ELSE /\ (ECONOMIC \in NexusTypes) =
                     (\/ Mills(nexus_args.revenue)
                           >= _NEXUS_THRESHOLDS[code].revenue * 1000
                      \/ /\ _NEXUS_THRESHOLDS[code].transactions # << >>
                         /\ nexus_args.transaction_count
                              >= _NEXUS_THRESHOLDS[code].transactions[1])
                /\ (PHYSICAL \in NexusTypes) = nexus_args.physical_presence

\* Economic nexus by the transaction count alone, with no physical presence.
C10_Witness ==
  /\ Returned(nexus)
  /\ ~nexus_args.physical_presence
  /\ upper(nexus_args.state_code) \in DOMAIN _NEXUS_THRESHOLDS
  /\ Mills(nexus_args.revenue)
       < _NEXUS_THRESHOLDS[upper(nexus_args.state_code)].revenue * 1000
  /\ nexus.nexus_types = <<ECONOMIC>>
  /\ nexus.has_nexus

\* 80% of the state's revenue threshold is reached (the threshold is whole
\* dollars, the revenue thousandths of a dollar).
RevenueAt80(code) == Mills(nexus_args.revenue) >= _NEXUS_THRESHOLDS[code].revenue * 800

\* The state has a transaction threshold and 80% of it is reached.
CountAt80(code) ==
  /\ _NEXUS_THRESHOLDS[code].transactions # << >>
  /\ nexus_args.transaction_count * 5 >= _NEXUS_THRESHOLDS[code].transactions[1] * 4

SpecScheduler == InitCheckers /\ [][MarkFiled \/ GetFilingDeadlines]_vars

-----------------------------------------------------------------------------
(* The filing deadlines *)

\* get_filing_deadlines has returned.
DeadlinesReturned == pc = "return" /\ call.op = "get_filing_deadlines"

\* The reference date of the call: as_of, or today when none is given.
RefDate == IF call.as_of # NoDate THEN call.as_of ELSE call.today

\* mark_filed(state, start, end) has been called on checker i.
WasFiled(i, state, start, end) ==
  \E c \in history :
    /\ c.op = "mark_filed" /\ c.self = i /\ c.state_code = state
    /\ c.period_start = start /\ c.period_end = end

\* C12: for every deadline returned by get_filing_deadlines, after any
\* sequence of mark_filed calls, status is "filed" iff the key (period_start,
\* period_end) was recorded for that state code on this instance; otherwise
\* "overdue" iff due_date < as_of (a due date equal to as_of is pending);
\* otherwise "pending"; is_overdue is true iff status is "overdue"; and
\* days_until_due is due_date - as_of in days.
C12_DeadlineStatus ==
  DeadlinesReturned =>
    \A k \in DOMAIN ret.value :
      LET d == ret.value[k]
      IN  /\ d.status =
               (IF WasFiled(call.self, call.state_code, d.period_start, d.period_end)
                THEN "filed"
                ELSE IF toordinal(d.due_date) < toordinal(RefDate) THEN "overdue"
                ELSE "pending")
          /\ d.is_overdue = (d.status = "overdue")
          /\ d.days_until_due = toordinal(d.due_date) - toordinal(RefDate)

\* A period that is past due and filed, next to one that is overdue.
C12_Witness ==
  /\ DeadlinesReturned
  /\ \E k \in DOMAIN ret.value :
       /\ ret.value[k].status = "filed"
       /\ ret.value[k].days_until_due < 0
  /\ \E k \in DOMAIN ret.value : ret.value[k].status = "overdue"

\* The frequency the call asks for: the explicit one, or the one its liability
\* selects (in thousandths of a dollar).
ExpectedFrequency ==
  IF call.frequency # NoFrequency THEN call.frequency
  ELSE IF Mills(call.estimated_annual_liability) >= 4800000 THEN MONTHLY
  ELSE IF Mills(call.estimated_annual_liability) >= 1200000 THEN QUARTERLY
  ELSE ANNUAL

\* The periods follow one another day by day from January 1 to December 31 of
\* the year asked for.
CoversTheYear(ds) ==
  /\ ds[1].period_start = date(call.year, 1, 1)
  /\ ds[Len(ds)].period_end = date(call.year, 12, 31)
  /\ \A k \in DOMAIN ds : toordinal(ds[k].period_start) <= toordinal(ds[k].period_end)
  /\ \A k \in 1 .. Len(ds) - 1 :
       toordinal(ds[k + 1].period_start) = toordinal(ds[k].period_end) + 1

\* Period k of n equal periods of the year is whole calendar months.
IsCalendarPeriod(d, k, n) ==
  /\ d.period_start = date(call.year, (k - 1) * (12 \div n) + 1, 1)
  /\ d.period_end = date(call.year, k * (12 \div n), DaysInMonth(call.year, k * (12 \div n)))

DueDay(state_code) ==
  IF state_code \in {CA, <<"W", "A">>} THEN 25
  ELSE IF state_code = <<"O", "H">> THEN 23
  ELSE 20

-----------------------------------------------------------------------------
(* Checkers side by side: construction, register_state and mark_filed *)

SpecInstances == InitChecker /\ [][Construct \/ RegisterState \/ MarkFiled]_vars

\* A checker as its constructor leaves it.
IsNew(h, self) ==
  h[self._registered_states] = {} /\ DOMAIN h[self._filed_periods] = {} /\ FiledKeys(h, self) = {}

\* What a checker reports: its registered states and filed periods, the
\* deadlines of January, of the first quarter and of the whole of 2024 for each
\* state code marked as filed, long after they are due, and the alerts for
\* sales above the thresholds of the two states that get registered.
Reports(h, self) ==
  <<h[self._registered_states],
    FiledKeys(h, self),
    [state \in FiledStates |->
       <<get_filing_deadlines(h, self, state, 2024, MONTHLY, Dec(0), date(2025, 3, 1), date(2025, 3, 1))[1],
         get_filing_deadlines(h, self, state, 2024, QUARTERLY, Dec(0), date(2025, 3, 1), date(2025, 3, 1))[1],
         get_filing_deadlines(h, self, state, 2024, NoFrequency, Dec(0), NoDate, date(2025, 3, 1))[1]>>],
    generate_alerts(h, self, [s \in RegisterStates |-> Dec(10000000)], << >>, << >>,
                    date(2025, 3, 1), date(2025, 3, 1),
                    CHOOSE o \in IterationOrders(RegisterStates) : TRUE,
                    CHOOSE o \in IterationOrders(registered_of(h, self, << >>)) : TRUE)>>

\* The calls of mark_filed and register_state made on checkers[i].
OwnCalls(i) == {c \in history : c.self = i}

\* The heap after the calls are made on the checker self, in any order: they
\* add to sets.
RECURSIVE Replay(_, _, _)
Replay(h, self, calls) ==
  IF calls = {} THEN h
  ELSE LET c == CHOOSE c \in calls : TRUE
       IN  Replay(IF c.op = "mark_filed"
                  THEN mark_filed(h, self, c.state_code, c.period_start, c.period_end)
                  ELSE register_state(h, self, c.state_code),
                  self, calls \ {c})

\* What a checker reports when it is the only one there is and is given the
\* calls.
ReportsAlone(calls) ==
  Reports(Replay(<<{}, << >> >>, [_registered_states |-> 1, _filed_periods |-> 2], calls),
          [_registered_states |-> 1, _filed_periods |-> 2])

\* C15: a ComplianceChecker on which nothing was called has no filed periods
\* and no registered states, whatever was done to the checkers made before it,
\* and what a checker reports (its registered states, its filed periods, the
\* statuses of its deadlines, its alerts) is what it would report if it were
\* the only checker: no call of mark_filed or register_state on another
\* checker changes it.
C15_InstanceScoped ==
  \A i \in DOMAIN checkers :
    /\ OwnCalls(i) = {} => IsNew(heap, checkers[i])
    /\ Reports(heap, checkers[i]) = ReportsAlone(OwnCalls(i))

\* A checker is constructed after a period was filed and a state registered on
\* the checkers before it, and it is new while they keep what they were given.
C15_Witness ==
  /\ \E i \in DOMAIN checkers : OwnCalls(i) = {} /\ IsNew(heap, checkers[i])
  /\ \E i \in DOMAIN checkers : FiledKeys(heap, checkers[i]) # {}
  /\ \E i \in DOMAIN checkers : heap[checkers[i]._registered_states] # {}
  /\ \E c \in history : c.op = "mark_filed"
  /\ \E c \in history : c.op = "register_state"


-----------------------------------------------------------------------------
(* The alerts of a checker *)

SpecAlerts == InitChecker /\ [][RegisterState \/ GenerateAlerts]_vars

AlertsReturned == pc = "return" /\ call.op = "generate_alerts"

\* The states with recorded activity: the keys of the two dicts.
ActiveStates == DOMAIN call.state_revenues \cup DOMAIN call.state_transactions

\* check_nexus for a state with recorded activity
ActivityStatus(state) ==
  check_nexus(state, DictGet(call.state_revenues, state, Dec(0)),
              DictGet(call.state_transactions, state, 0), FALSE)

\* The registered set: the codes passed, or else the codes registered on the
\* checker, in upper case.
RegisteredSet ==
  IF call.registered_states # << >> /\ call.registered_states[1] # << >>
  THEN {upper(call.registered_states[1][k]) : k \in DOMAIN call.registered_states[1]}
  ELSE {upper(c.state_code) : c \in {c \in OwnCalls(call.self) : c.op = "register_state"}}

\* The severities of the nexus alerts returned for a state, in order.
NexusSeverities(state) ==
  LET for_state == SelectSeq(ret.value, LAMBDA a : a.state_code = state /\ a.deadline = NoDate)
  IN  [k \in DOMAIN for_state |-> for_state[k].severity]

-----------------------------------------------------------------------------
(* The refund analyzer *)

SpecAnalyze == InitAnalyzeTransaction /\ [][AnalyzeTransaction]_vars

\* analyze_transaction was called for a transaction calculate has a result for.
Analyzed ==
  pc = "return" /\ call.op = "analyze_transaction" /\ ~Raised(calculate(call.txn))

\* A record was returned.
RecordReturned == Analyzed /\ ~Raised(ret) /\ ret # NoRecord

\* tax_paid - tax_owed, in thousandths
OverpaidMills == Mills(call.tax_paid) - Mills(calculate(call.txn).tax_amount)

\* C16: analyze_transaction returns a record iff tax_paid - tax_owed rounded
\* half up to the cent is positive, tax_owed being the tax calculate finds for
\* the transaction; the record has that rounded difference as overpayment and
\* that tax as tax_owed; otherwise it returns None.
C16_RecordIffOverpaid ==
  Analyzed =>
    /\ RecordReturned <=> 2 * OverpaidMills >= 10
    /\ RecordReturned =>
         /\ IsHalfUp(ret.overpayment.coeff, OverpaidMills, 10)
         /\ ret.overpayment.coeff > 0 /\ ret.overpayment.exp = 2
         /\ ret.tax_owed = calculate(call.txn).tax_amount
    /\ ~RecordReturned => ret = NoRecord


\* The years of the statute of limitations for the state code of a record: an
\* entry of the table (4 for TX and IL), 3 for a code that has none.
StatuteYears(state_code) ==
  IF state_code \in DOMAIN _STATUTE_OF_LIMITATIONS
  THEN _STATUTE_OF_LIMITATIONS[state_code]
  ELSE 3

\* The date moved by a number of years.
YearsLater(d, years) == [d EXCEPT !.year = @ + years]

\* The as-of date of the call: as_of, or today when there is none.
AsOfDate == IF call.as_of # NoDate THEN call.as_of ELSE call.today

\* C17: in every overpayment record refund_eligible is true iff the
\* transaction date is on or after the as-of date moved back by the years of
\* the statute of limitations of the record's state code, and
\* statute_of_limitations_date is the transaction date moved forward by these
\* years; they are 4 for TX and IL and 3 for a code the table does not list.
C17_StatuteOfLimitations ==
  RecordReturned =>
    /\ ret.refund_eligible
         <=> ~DateLess(ret.transaction_date,
                       YearsLater(AsOfDate, 0 - StatuteYears(ret.state)))
    /\ ret.statute_of_limitations_date
         = YearsLater(ret.transaction_date, StatuteYears(ret.state))
    /\ ret.transaction_date = call.txn.transaction_date /\ ret.state = call.txn.state
    /\ StatuteYears(TX) = 4 /\ StatuteYears(<<"I", "L">>) = 4
    /\ StatuteYears(<<"Z", "Z">>) = 3 /\ StatuteYears(OR) = 3

\* A Texas sale made more than three and not more than four years before the
\* as-of date is overpaid: the record is eligible, until four years after it.
C17_Witness ==
  /\ RecordReturned
  /\ ret.state = TX /\ AsOfDate = date(2024, 6, 15)
  /\ ret.transaction_date = date(2020, 6, 15)
  /\ ret.refund_eligible
  /\ ret.statute_of_limitations_date = date(2024, 6, 15)


SpecRefund == InitAnalyzeBatch /\ [][AnalyzeBatch \/ GenerateRefundClaims]_vars

\* analyze_batch returned a summary.
Summarised == pc = "generate_refund_claims" /\ call.op = "analyze_batch"

\* What analyze_transaction gives for each pair of the batch.
Analysis(k) ==
  analyze_transaction(call.transactions[k][1], call.transactions[k][2], call.as_of, call.today)

\* The overpayments found in the batch, in cents: of all records, and of the
\* eligible ones.
RECURSIVE OverpaidCents(_, _)
OverpaidCents(k, eligible_only) ==
  IF k = 0 THEN 0
  ELSE OverpaidCents(k - 1, eligible_only)
       + (IF Analysis(k) = NoRecord \/ (eligible_only /\ ~Analysis(k).refund_eligible)
          THEN 0 ELSE Analysis(k).overpayment.coeff)

\* The pairs whose record is past the statute of limitations.
PastStatute ==
  {k \in DOMAIN call.transactions : Analysis(k) # NoRecord /\ ~Analysis(k).refund_eligible}

\* C18: estimated_recovery is 0.85 times the sum of the overpayments of the
\* eligible records, rounded half up to the cent; the records past the statute
\* of limitations count in total_overpayment and not in estimated_recovery,
\* and the summary has one warning for each of them and no other.
C18_EstimatedRecovery ==
  Summarised =>
    /\ IsHalfUp(ret.estimated_recovery.coeff,
                85 * OverpaidCents(Len(call.transactions), TRUE), 100)
    /\ ret.estimated_recovery.exp = 2
    /\ ret.total_overpayment = Dec(OverpaidCents(Len(call.transactions), FALSE))
    /\ Len(ret.warnings) = Cardinality(PastStatute)
    /\ \A k \in PastStatute :
         Cardinality({w \in DOMAIN ret.warnings :
                        ret.warnings[w][2] = Analysis(k).transaction_id})
           = Cardinality({j \in PastStatute :
                            Analysis(j).transaction_id = Analysis(k).transaction_id})

\* A batch with an eligible overpayment of 0.10, whose 85% is 0.085, and one
\* past the statute of limitations: the recovery is 0.09 and the total 17.60.
C18_Witness ==
  /\ Summarised
  /\ ret.estimated_recovery = Dec(9)
  /\ ret.total_overpayment = Dec(1760)
  /\ Len(ret.warnings) = 1


\* generate_refund_claims returned the claims for a summary.
ClaimsReturned == pc = "return" /\ call.op = "generate_refund_claims"

\* The eligible records of the summary for a state, in order.
EligibleIn(state) ==
  SelectSeq(call.summary.records, LAMBDA r : r.refund_eligible /\ r.state = state)

\* The states with an eligible record in the summary.
EligibleStates ==
  {call.summary.records[k].state :
     k \in {k \in DOMAIN call.summary.records : call.summary.records[k].refund_eligible}}

\* The sum of the overpayments of the first k records of a list, in cents.
RECURSIVE CentsOf(_, _)
CentsOf(records, k) ==
  IF k = 0 THEN 0 ELSE CentsOf(records, k - 1) + records[k].overpayment.coeff

\* The sum of the requested totals of the first n claims, in cents.
RECURSIVE RequestedCents(_)
RequestedCents(n) ==
  IF n = 0 THEN 0 ELSE RequestedCents(n - 1) + ret.value[n].total_refund_requested.coeff

\* C19: generate_refund_claims returns one claim for each state with an
\* eligible record and no other claim; a claim holds the eligible records of
\* its state and nothing else, spans the earliest to the latest of their
\* transaction dates and requests the sum of their overpayments; the claims
\* are in descending order of the requested total, and the totals add up to
\* the eligible overpayment of the summary.
C19_RefundClaims ==
  ClaimsReturned =>
    /\ {ret.value[n].state_code : n \in DOMAIN ret.value} = EligibleStates
    /\ Len(ret.value) = Cardinality(EligibleStates)
    /\ \A n \in DOMAIN ret.value :
         LET claim == ret.value[n]
         IN  /\ claim.records = EligibleIn(claim.state_code)
             /\ claim.transaction_count = Len(claim.records)
             /\ \E k \in DOMAIN claim.records :
                  claim.claim_period_start = claim.records[k].transaction_date
             /\ \E k \in DOMAIN claim.records :
                  claim.claim_period_end = claim.records[k].transaction_date
             /\ \A k \in DOMAIN claim.records :
                  /\ ~DateLess(claim.records[k].transaction_date, claim.claim_period_start)
                  /\ ~DateLess(claim.claim_period_end, claim.records[k].transaction_date)
             /\ claim.total_refund_requested = Dec(CentsOf(claim.records, Len(claim.records)))
    /\ \A m, n \in DOMAIN ret.value :
         m < n => ret.value[m].total_refund_requested.coeff
                    >= ret.value[n].total_refund_requested.coeff
    /\ RequestedCents(Len(ret.value))
         = CentsOf(SelectSeq(call.summary.records, LAMBDA r : r.refund_eligible),
                   Len(SelectSeq(call.summary.records, LAMBDA r : r.refund_eligible)))

\* The summary has an eligible record of 0.10 in Oregon first, then two records
\* in Texas, one of them past the statute of limitations: the claim of Texas,
\* with its one eligible record, comes before the claim of Oregon.
C19_Witness ==
  /\ ClaimsReturned
  /\ Len(call.summary.records) = 3
  /\ call.summary.records[1].state = OR
  /\ \E k \in DOMAIN call.summary.records :
       call.summary.records[k].state = TX /\ ~call.summary.records[k].refund_eligible
  /\ Len(ret.value) = 2
  /\ ret.value[1].state_code = TX /\ Len(ret.value[1].records) = 1
  /\ ret.value[2].state_code = OR

-----------------------------------------------------------------------------
(* The lookups of the rate database *)

SpecRates ==
  InitRates /\ [][GetState \/ GetBaseRate \/ GetCombinedRate \/ GetLocalRate \/ IsExempt]_vars

LookedUp == pc = "return" /\ call.op \in {"get_state", "get_base_rate", "get_combined_rate",
                                           "get_local_rate", "is_exempt"}

\* Two characters that are the same, or the two cases of one letter.
SameLetter(a, b) ==
  \/ a = b
  \/ \E k \in DOMAIN ASCII_LOWER : {a, b} = {ASCII_LOWER[k], ASCII_UPPER[k]}

\* Two strings that differ in the case of their letters at most.
SameIgnoringCase(s, u) ==
  Len(s) = Len(u) /\ \A k \in DOMAIN s : SameLetter(s[k], u[k])

\* The codes of the table the code asked for stands for.
TableCodes == {code \in DOMAIN _STATE_DATA : SameIgnoringCase(call.state_code, code)}

\* The entries of a state's table of local rates the city asked for names.
LocalsNamed(code) ==
  {k \in DOMAIN _STATE_DATA[code].locals :
     SameIgnoringCase(call.city, _STATE_DATA[code].locals[k].jurisdiction)}

\* C21: get_base_rate, is_exempt and get_combined_rate raise ValueError for a
\* state code that is not in the table, get_state and get_local_rate return None
\* for it; a code of the table is found in any letter case, and get_local_rate
\* returns the local rate whose jurisdiction is the city in any letter case, and
\* None for any other city.
C21_RateLookups ==
  LookedUp =>
    /\ TableCodes = {} =>
          IF call.op = "get_state" THEN ret = NoState
          ELSE IF call.op = "get_local_rate" THEN ret = NoLocal
          ELSE ret = Raise("ValueError")
    /\ \A code \in TableCodes :
          LET data == _STATE_DATA[code]
          IN  /\ call.op = "get_state" =>
                    /\ ret # NoState
                    /\ ret.state_code = code /\ ret.base_rate = data.base_rate
              /\ call.op = "get_base_rate" => ret = Ok(data.base_rate)
              /\ call.op = "is_exempt" =>
                    ret = Ok(\E k \in DOMAIN data.exemptions : data.exemptions[k] = call.category)
              /\ call.op = "get_combined_rate" => ~Raised(ret)
              /\ call.op = "get_local_rate" =>
                    /\ LocalsNamed(code) = {} => ret = NoLocal
                    /\ LocalsNamed(code) # {} =>
                          \E k \in LocalsNamed(code) : ret = data.locals[k]

\* The local rate of Houston was asked for as "tx", "HOUSTON" and found.
C21_Witness ==
  /\ LookedUp
  /\ call.op = "get_local_rate"
  /\ call.state_code = <<"t", "x">> /\ call.city = upper(Houston)
  /\ ret # NoLocal /\ ret.jurisdiction = Houston

-----------------------------------------------------------------------------
(* The city that has no local rate of its own *)

\* calculate has taxed a transaction that names a city the table has no local
\* rate for, in a state that has local taxes.
CityNotInTable ==
  /\ TaxedResult
  /\ Truthy(txn.city)
  /\ get_state(txn.state).has_local_taxes
  /\ get_local_rate(txn.state, txn.city) = NoLocal

\* The average local portion of a state: max(avg_combined_rate - base_rate, 0).
AverageLocalRate(state) ==
  IF state.avg_combined_rate > state.base_rate
  THEN state.avg_combined_rate - state.base_rate ELSE 0

\* One of the warnings says that the average local rate was used.
WarnsOfAverage(r) ==
  \E k \in DOMAIN r.warnings :
    r.warnings[k][Len(r.warnings[k])] = "; used average local rate"

\* C22: for a taxable transaction that names a city with no local rate of its
\* own, in a state that has local taxes, calculate uses the local rate
\* max(avg_combined_rate - base_rate, 0), and the result has a warning that the
\* average local rate was used.
C22_AverageLocalRateWarned ==
  CityNotInTable =>
    /\ result.effective_rate
          = get_state(txn.state).base_rate + AverageLocalRate(get_state(txn.state))
    /\ WarnsOfAverage(result)

-----------------------------------------------------------------------------
(* The nexus of every state *)

SpecNexusAll == InitChecker /\ [][CheckNexusAllStates]_vars

StatusesReturned == pc = "return" /\ call.op = "check_nexus_all_states"

\* The states that have revenue or transactions: the codes in upper case, as
\* check_nexus reports them.
StatesWithActivity ==
  {upper(state) : state \in
     {s \in dict_keys(call.state_revenues) \cup dict_keys(call.state_transactions) :
        \/ ItemsGet(call.state_revenues, s, Dec(0)) # Dec(0)
        \/ ItemsGet(call.state_transactions, s, 0) # 0}}

\* The place of a state in the input: in state_revenues, and after them the
\* states that state_transactions alone has.
InputOrder == <<call.state_revenues, call.state_transactions>>

InputPlace(state_code) ==
  LET given == Extend(InputOrder)
  IN  CHOOSE k \in DOMAIN given :
        /\ upper(given[k][1]) = state_code
        /\ \A j \in DOMAIN given : upper(given[j][1]) = state_code => k <= j

\* C23: check_nexus_all_states returns one NexusStatus for each state that has
\* revenue or a transaction count other than zero, and none for any other
\* state, by descending percentage of the revenue threshold, the states of
\* equal percentage in the order of the input.
C23_AllStatesByRevenuePct ==
  StatusesReturned =>
    LET statuses == ret.value
    IN  /\ \A state \in StatesWithActivity :
              Cardinality({k \in DOMAIN statuses : statuses[k].state_code = state}) = 1
        /\ \A k \in DOMAIN statuses : statuses[k].state_code \in StatesWithActivity
        /\ \A j, k \in DOMAIN statuses :
              j < k =>
                LET a == PctKey(statuses[j].revenue_pct_of_threshold)
                    b == PctKey(statuses[k].revenue_pct_of_threshold)
                IN  /\ a >= b
                    /\ a = b => InputPlace(statuses[j].state_code)
                                   < InputPlace(statuses[k].state_code)

-----------------------------------------------------------------------------
(* The alerts of a checker with filed periods *)

SpecAlertsFiled == InitChecker /\ [][RegisterState \/ MarkFiled \/ GenerateAlerts]_vars

\* An alert of the nexus loop: on a state with recorded activity, with one of
\* the two messages of the loop and no deadline.
IsNexusAlert(a) ==
  /\ a.state_code \in ActiveStates
  /\ a.message[1] \in {"Economic nexus established in ",
                        "Approaching economic nexus threshold in "}
  /\ a.deadline = NoDate

AlertRefDate == IF call.as_of # NoDate THEN call.as_of ELSE call.today

\* The filing schedule generate_alerts generates for a registered state.
ScheduleGenerated(state) ==
  get_filing_deadlines(heap, checkers[call.self], state, AlertRefDate.year, NoFrequency,
                       Dec(0), AlertRefDate, AlertRefDate)

\* Severity and deadline of the alerts returned for a state that have a deadline.
OverdueAlertsReturned(state) ==
  SelectSeq(ret.value, LAMBDA a : a.deadline # NoDate /\ a.state_code = state)

-----------------------------------------------------------------------------
(* The analyzer on every date *)

SpecAnalyzer ==
  (InitAnalyzeTransaction \/ InitAnalyzeBatch)
    /\ [][AnalyzeTransaction \/ AnalyzeBatch \/ GenerateRefundClaims]_vars

\* analyze_batch was called with pairs calculate has a result for.
BatchAnalyzed ==
  /\ call.op = "analyze_batch" /\ ret # NotCalled
  /\ \A k \in DOMAIN call.transactions : ~Raised(calculate(call.transactions[k][1]))

\* C25: analyze_transaction returns a record or None, and analyze_batch a
\* summary, for every transaction calculate has a result for, every tax paid
\* and every as-of date, a leap day as any other day: neither raises, and no
\* pair keeps analyze_batch from analysing the other pairs.
C25_AnalysisNeverRaises ==
  /\ Analyzed => ~Raised(ret)
  /\ BatchAnalyzed => ~Raised(ret)

-----------------------------------------------------------------------------
(* The periods filed on a checker *)

SpecFiling ==
  InitChecker
    /\ [][RegisterState \/ MarkFiled \/ GetFilingDeadlines \/ GetOverdueFilings
             \/ CheckNexusAllStates \/ GenerateAlerts]_vars

\* The period keys mark_filed was called with on checker i, each with the
\* state code of the call, and the codes register_state was called with.
MarkedFiled(i) ==
  {<<c.state_code, PeriodKey(c.period_start, c.period_end)>> :
     c \in {c \in OwnCalls(i) : c.op = "mark_filed"}}

Registered(i) ==
  {upper(c.state_code) : c \in {c \in OwnCalls(i) : c.op = "register_state"}}

\* C26: the periods filed on a checker are exactly those mark_filed was called
\* with, each under the state code of its call, whatever was called after it,
\* a second call with the same arguments and the queries (get_filing_deadlines,
\* get_overdue_filings, check_nexus_all_states, generate_alerts) included, and
\* the registered states exactly those register_state was called with; and
\* get_filing_deadlines for a state reports a period with status "filed" and
\* is_overdue false if it was marked as filed for that state, at every as-of
\* date, and no other period as filed.
C26_FiledPeriods ==
  /\ \A i \in DOMAIN checkers :
       /\ FiledKeys(heap, checkers[i]) = MarkedFiled(i)
       /\ heap[checkers[i]._registered_states] = Registered(i)
  /\ DeadlinesReturned =>
       \A k \in DOMAIN ret.value :
         LET d == ret.value[k]
         IN  IF <<call.state_code, PeriodKey(d.period_start, d.period_end)>>
                  \in MarkedFiled(call.self)
             THEN d.status = "filed" /\ ~d.is_overdue
             ELSE d.status # "filed"

\* Two periods of 2024 were marked as filed for Texas, and a state registered;
\* the monthly deadlines asked for after the due dates report January as
\* filed and February as overdue.
C26_Witness ==
  /\ DeadlinesReturned
  /\ call.state_code = TX /\ call.frequency = MONTHLY /\ call.year = 2024
  /\ Cardinality({c \in history : c.op = "mark_filed" /\ c.state_code = TX}) = 2
  /\ \E c \in history : c.op = "register_state"
  /\ ret.value[1].status = "filed" /\ ret.value[1].days_until_due < 0
  /\ ret.value[2].status = "overdue"

-----------------------------------------------------------------------------
(* get_overdue_filings after a year of returns was filed *)

\* The monthly and the quarterly periods of a year.
YearPeriods(year) ==
  {{<<date(year, month, 1), MonthEnd(year, month)>> : month \in 1 .. 12},
   {Quarters(year)[q] : q \in 1 .. 4}}

\* A checker on which a state was registered and every monthly, or every
\* quarterly, period of a year marked as filed for it.
InitYearFiled ==
  /\ NoCalculation
  /\ call = NoCall
  /\ ret = NotCalled
  /\ \E state \in {TX, GA}, year \in OverdueYears :
       \E periods \in YearPeriods(year) :
         LET first == ComplianceChecker__init__(<< >>)
         IN  /\ checkers = <<first.self>>
             /\ history = {[op |-> "register_state", self |-> 1, state_code |-> state]}
                             \cup {[op |-> "mark_filed", self |-> 1, state_code |-> state,
                                     period_start |-> p[1], period_end |-> p[2]] :
                                      p \in periods}
             /\ heap = Replay(first.heap, first.self, history)

SpecYearFiled == InitYearFiled /\ [][RegisterState \/ GetOverdueFilings]_vars

OverdueReturned == pc = "return" /\ call.op = "get_overdue_filings"

\* Every monthly, or every quarterly, period of the year was marked as filed
\* for the state on checker i.
YearFiled(i, state, year) ==
  \E periods \in YearPeriods(year) :
    \A p \in periods : <<state, PeriodKey(p[1], p[2])>> \in MarkedFiled(i)

\* C27: when every monthly period, or every quarterly period, of a year was
\* marked as filed for a registered state, get_overdue_filings for that year
\* returns no deadline of that state, at every as-of date.
C27_FiledYearNotOverdue ==
  OverdueReturned =>
    \A state \in heap[checkers[call.self]._registered_states] :
      YearFiled(call.self, state, call.year) =>
        \A k \in DOMAIN ret.value : ret.value[k].state_code # state

-----------------------------------------------------------------------------
(* registered_states given by the caller *)

SpecRegistered == InitChecker /\ [][RegisterState \/ GenerateAlerts \/ GetOverdueFilings]_vars

\* The heap with no state registered on the checker self.
NoneRegistered(h, self) == [h EXCEPT ![self._registered_states] = {}]

\* registered_states was passed by the caller, the empty list included.
RegisteredGiven == call.registered_states # << >>

\* C29: when the caller passes registered_states to generate_alerts or to
\* get_overdue_filings, the empty list included, the result is the one a
\* checker on which no state was registered returns for the same arguments.
C29_GivenRegisteredStatesOnly ==
  LET self == checkers[call.self]
      none == NoneRegistered(heap, self)
  IN  /\ AlertsReturned /\ RegisteredGiven =>
           \E states \in IterationOrders(ActiveStates),
              registered \in IterationOrders(registered_of(none, self, call.registered_states)) :
             ret.value = generate_alerts(none, self, call.state_revenues,
                                         call.state_transactions, call.registered_states,
                                         call.as_of, call.today, states, registered)
      /\ OverdueReturned /\ RegisteredGiven =>
           ret.value = get_overdue_filings(none, self, call.registered_states, call.year,
                                           call.as_of, call.today, << >>)

-----------------------------------------------------------------------------
(* The letter case of the state code of a filing *)

\* mark_filed was called on checker i for the period, with the state code in
\* some letter case.
WasFiledInAnyCase(i, state, start, end) ==
  \E c \in history :
    /\ c.op = "mark_filed" /\ c.self = i /\ upper(c.state_code) = upper(state)
    /\ c.period_start = start /\ c.period_end = end

\* C30: a period marked as filed with the state code in one letter case is
\* reported as filed by get_filing_deadlines called with the code in another
\* letter case.
C30_FiledInAnyLetterCase ==
  DeadlinesReturned =>
    \A k \in DOMAIN ret.value :
      LET d == ret.value[k]
      IN  WasFiledInAnyCase(call.self, call.state_code, d.period_start, d.period_end)
            => d.status = "filed"

====
